---- MODULE Spec2Model ----
(***************************************************************************)
(* Threshold urban planner backend: the hotspot scoring pipeline           *)
(* (Backend/services/hotspot_scoring_service.py), the parcel post-         *)
(* processing of Backend/services/esa_worldcover_service.py and the AOI    *)
(* overlap matcher of Backend/services/hotspots_service.py.                *)
(*                                                                         *)
(* Python floats are modelled as exact rationals [t, n, d] (n/d, d > 0,    *)
(* in lowest terms), together with the two non-numbers the code can meet:  *)
(* NaN (every comparison false) and None (every comparison raises          *)
(* TypeError).                                                             *)
(***************************************************************************)
EXTENDS Integers, Sequences, FiniteSets, TLC

VARIABLES pc, model, scaler, is_initialized, init_log, lastCall, lastResult,
          aoi_cache_collection, vacant_land_collection, utcnow, requests

vars == <<pc, model, scaler, is_initialized, init_log, lastCall, lastResult,
          aoi_cache_collection, vacant_land_collection, utcnow, requests>>

\* the two collections of hotspots_service, the clock and the requests in
\* flight
store == <<aoi_cache_collection, vacant_land_collection, utcnow, requests>>

(***************************************************************************)
(* Numbers                                                                 *)
(***************************************************************************)
Abs(x) == IF x < 0 THEN -x ELSE x

RECURSIVE GCD(_, _)
GCD(a, b) == IF b = 0 THEN a ELSE GCD(b, a % b)

\* the rational n/d in lowest terms, d > 0
Rat(n, d) ==
    LET g == GCD(Abs(n), Abs(d))
        s == IF d < 0 THEN -1 ELSE 1
    IN  [t |-> "num", n |-> (s * n) \div g, d |-> (s * d) \div g]

Num(n) == [t |-> "num", n |-> n, d |-> 1]
NaN == [t |-> "nan", n |-> 0, d |-> 1]
None == [t |-> "none", n |-> 0, d |-> 1]

IsNum(x) == x.t = "num"
IsNone(x) == x.t = "none"

\* float arithmetic: NaN as soon as one operand is NaN, otherwise the exact
\* rational, reduced before multiplying to keep the intermediate integers
\* small
Add(x, y) ==
    IF IsNum(x) /\ IsNum(y)
    THEN LET g == GCD(x.d, y.d)
         IN  Rat(x.n * (y.d \div g) + y.n * (x.d \div g), (x.d \div g) * y.d)
    ELSE NaN

Neg(x) == IF IsNum(x) THEN [t |-> "num", n |-> -x.n, d |-> x.d] ELSE NaN
Sub(x, y) == Add(x, Neg(y))

Mul(x, y) ==
    IF IsNum(x) /\ IsNum(y)
    THEN LET g1 == GCD(Abs(x.n), y.d)
             g2 == GCD(Abs(y.n), x.d)
         IN  Rat((x.n \div g1) * (y.n \div g2), (x.d \div g2) * (y.d \div g1))
    ELSE NaN

\* the divisors met are never zero
Div(x, y) ==
    IF IsNum(x) /\ IsNum(y)
    THEN Mul(x, IF y.n < 0 THEN [t |-> "num", n |-> -y.d, d |-> -y.n]
                           ELSE [t |-> "num", n |-> y.d, d |-> y.n])
    ELSE NaN

\* Python's <= and < on floats: false as soon as one side is NaN
Leq(x, y) == IsNum(x) /\ IsNum(y) /\ x.n * y.d <= y.n * x.d
Lt(x, y) == IsNum(x) /\ IsNum(y) /\ x.n * y.d < y.n * x.d

\* Python evaluates statement by statement: the values vs (a tuple, in
\* statement order) are computed before the expression e that uses them
After(vs, e) == IF vs = vs THEN e ELSE e

\* Python's max(a, b) and min(a, b): the first argument unless the second
\* compares strictly greater (smaller)
PyMax(a, b) == IF Lt(a, b) THEN b ELSE a
PyMin(a, b) == IF Lt(b, a) THEN b ELSE a

\* <<q, r>> with r * scale = q * d + r' : the quotient and remainder of
\* (r * scale) / d for r < d, one decimal digit at a time
RECURSIVE DivScale(_, _, _)
DivScale(r, d, scale) ==
    IF scale = 1 THEN <<0, r>>
    ELSE LET prev == DivScale(r, d, scale \div 10)
             t == prev[2] * 10
         IN  <<prev[1] * 10 + (t \div d), t % d>>

\* Python's round(x, digits) with scale = 10^digits: to the nearest multiple
\* of 1/scale, ties to the even multiple
PyRound(x, scale) ==
    IF ~IsNum(x) THEN x ELSE
    LET ds == DivScale(x.n % x.d, x.d, scale)
        q == (x.n \div x.d) * scale + ds[1]
        r2 == 2 * ds[2]
        up == r2 > x.d \/ (r2 = x.d /\ q % 2 = 1)
    IN  Rat(IF up THEN q + 1 ELSE q, scale)

(***************************************************************************)
(* hotspot_scoring_service.py: the rule-based scorer                       *)
(***************************************************************************)
AmenityKeys == {"hospital", "school", "bus", "railway", "mall", "airport"}

\* the defaults of the distances.get calls of _calculate_fallback_score
DefaultDistance ==
    [hospital |-> Num(10), school |-> Num(8), bus |-> Num(5),
     railway |-> Num(15), mall |-> Num(10), airport |-> Num(30)]

\* the (optimal, max_acceptable) pair passed to distance_score per amenity
Optimal ==
    [hospital |-> Num(2), school |-> Num(1), bus |-> Rat(1, 2),
     railway |-> Num(2), mall |-> Rat(3, 2), airport |-> Num(15)]

MaxAcceptable ==
    [hospital |-> Num(10), school |-> Num(8), bus |-> Num(3),
     railway |-> Num(15), mall |-> Num(10), airport |-> Num(45)]

\* the weights of the final sum
Weight ==
    [aqi |-> Rat(25, 100), population |-> Rat(20, 100),
     hospital |-> Rat(15, 100), school |-> Rat(15, 100), bus |-> Rat(10, 100),
     railway |-> Rat(5, 100), mall |-> Rat(8, 100), airport |-> Rat(2, 100)]

\* a distances argument that is not a mapping (its .get raises)
NotADict == [k \in {"__not_a_dict__"} |-> None]
IsDict(distances) == "__not_a_dict__" \notin DOMAIN distances

\* distances.get(key, default)
Get(distances, key, default) ==
    IF key \in DOMAIN distances THEN distances[key] ELSE default

\* AqiScore with the tier bounds taken as strict
AqiScoreStrict(aqi) ==
    IF Lt(aqi, Num(50)) THEN Num(1)
    ELSE IF Lt(aqi, Num(100)) THEN Rat(8, 10)
    ELSE IF Lt(aqi, Num(150)) THEN Rat(5, 10)
    ELSE IF Lt(aqi, Num(200)) THEN Rat(3, 10)
    ELSE Rat(1, 10)

\* the AQI tiers
AqiScore(aqi) ==
    IF Leq(aqi, Num(50)) THEN Num(1)
    ELSE IF Leq(aqi, Num(100)) THEN Rat(8, 10)
    ELSE IF Leq(aqi, Num(150)) THEN Rat(5, 10)
    ELSE IF Leq(aqi, Num(200)) THEN Rat(3, 10)
    ELSE Rat(1, 10)

\* PopScore with the tier bounds taken as inclusive
PopScoreInclusive(population_density) ==
    IF Leq(population_density, Num(1000)) THEN Rat(2, 10)
    ELSE IF Leq(population_density, Num(5000)) THEN Rat(6, 10)
    ELSE IF Leq(population_density, Num(15000)) THEN Num(1)
    ELSE IF Leq(population_density, Num(25000)) THEN Rat(8, 10)
    ELSE Rat(4, 10)

\* the population density tiers
PopScore(population_density) ==
    IF Lt(population_density, Num(1000)) THEN Rat(2, 10)
    ELSE IF Lt(population_density, Num(5000)) THEN Rat(6, 10)
    ELSE IF Lt(population_density, Num(15000)) THEN Num(1)
    ELSE IF Lt(population_density, Num(25000)) THEN Rat(8, 10)
    ELSE Rat(4, 10)

\* the decay of the middle branch of distance_score
Decay(dist, optimal, max_acceptable) ==
    Div(Sub(dist, optimal), Sub(max_acceptable, optimal))

\* the middle branch with a linear decay
DecayScoreLinear(decay) ==
    After(<<decay>>, PyMax(Num(0), Sub(Num(1), decay)))

\* the middle branch returning the squared decay itself
DecayScoreRising(decay) ==
    After(<<decay>>, PyMax(Num(0), Mul(decay, decay)))

\* max(0, 1 - (decay ** 2))
DecayScore(decay) ==
    After(<<decay>>, PyMax(Num(0), Sub(Num(1), Mul(decay, decay))))

\* distance_score with a linear decay
distance_score_linear(dist, optimal, max_acceptable) ==
    IF Leq(dist, optimal) THEN Num(1)
    ELSE IF Leq(dist, max_acceptable)
         THEN DecayScoreLinear(Decay(dist, optimal, max_acceptable))
         ELSE Num(0)

\* distance_score returning the squared decay itself
distance_score_rising(dist, optimal, max_acceptable) ==
    IF Leq(dist, optimal) THEN Num(1)
    ELSE IF Leq(dist, max_acceptable)
         THEN DecayScoreRising(Decay(dist, optimal, max_acceptable))
         ELSE Num(0)

\* the nested function distance_score(dist, optimal, max_acceptable)
distance_score(dist, optimal, max_acceptable) ==
    IF Leq(dist, optimal) THEN Num(1)
    ELSE IF Leq(dist, max_acceptable)
         THEN DecayScore(Decay(dist, optimal, max_acceptable))
         ELSE Num(0)

\* the sub-score of one amenity
AmenityScore(distances, key) ==
    distance_score(Get(distances, key, DefaultDistance[key]),
                   Optimal[key], MaxAcceptable[key])

\* WeightedSum with the bus and railway weights exchanged
WeightedSumSwapped(aqi_score, pop_score, d) ==
    Add(Add(Add(Add(Add(Add(Add(
        Mul(aqi_score, Weight.aqi),
        Mul(pop_score, Weight.population)),
        Mul(d.hospital, Weight.hospital)),
        Mul(d.school, Weight.school)),
        Mul(d.bus, Weight.railway)),
        Mul(d.railway, Weight.bus)),
        Mul(d.mall, Weight.mall)),
        Mul(d.airport, Weight.airport))

\* the weighted sum
WeightedSum(aqi_score, pop_score, d) ==
    Add(Add(Add(Add(Add(Add(Add(
        Mul(aqi_score, Weight.aqi),
        Mul(pop_score, Weight.population)),
        Mul(d.hospital, Weight.hospital)),
        Mul(d.school, Weight.school)),
        Mul(d.bus, Weight.bus)),
        Mul(d.railway, Weight.railway)),
        Mul(d.mall, Weight.mall)),
        Mul(d.airport, Weight.airport))

\* the clamp with the rounding to 3 decimals of the breakdown
ClampScoreThreeDecimals(final_score) ==
    PyRound(PyMax(Num(0), PyMin(Num(1), final_score)), 1000)

\* the clamp and rounding of the returned score
ClampScore(final_score) ==
    PyRound(PyMax(Num(0), PyMin(Num(1), final_score)), 10000)

\* a comparison with None raises TypeError, as does .get on a non-mapping
FallbackRaises(aqi, population_density, distances) ==
    \/ IsNone(aqi)
    \/ IsNone(population_density)
    \/ ~IsDict(distances)
    \/ \E k \in AmenityKeys : IsNone(Get(distances, k, DefaultDistance[k]))

NoBreakdown == [k \in {} |-> None]

\* the static result of the except branch of _calculate_fallback_score
ErrorResult ==
    [score |-> Rat(5, 10), confidence |-> Num(0), method |-> "error",
     breakdown |-> NoBreakdown, error |-> TRUE]

\* the breakdown and the returned mapping, from the sub-scores computed by
\* the statements before them (d maps each amenity to its sub-score)
RuleBasedReturn(aqi_score, pop_score, d) ==
    After(<<aqi_score, pop_score, d>>,
        [score |-> ClampScore(WeightedSum(aqi_score, pop_score, d)),
         confidence |-> Rat(7, 10),
         method |-> "rule_based_fallback",
         breakdown |->
            [aqi_score |-> PyRound(aqi_score, 1000),
             population_score |-> PyRound(pop_score, 1000),
             hospital_score |-> PyRound(d.hospital, 1000),
             school_score |-> PyRound(d.school, 1000),
             bus_score |-> PyRound(d.bus, 1000),
             railway_score |-> PyRound(d.railway, 1000),
             mall_score |-> PyRound(d.mall, 1000),
             airport_score |-> PyRound(d.airport, 1000)],
         error |-> FALSE])

\* the try body of _calculate_fallback_score, for inputs that do not raise
RuleBasedResult(aqi, population_density, distances) ==
    RuleBasedReturn(AqiScore(aqi), PopScore(population_density),
                    [k \in AmenityKeys |-> AmenityScore(distances, k)])

\* _calculate_fallback_score: the try body, or the static result on any exception
CalculateFallbackScore(aqi, population_density, distances) ==
    IF FallbackRaises(aqi, population_density, distances)
    THEN ErrorResult
    ELSE RuleBasedResult(aqi, population_density, distances)

(***************************************************************************)
(* hotspot_scoring_service.py: the service object, initialize and the ML   *)
(* scorer                                                                  *)
(***************************************************************************)
\* what pickle.load can hand back for the model file: an estimator (with or
\* without predict_proba and score), or None
NoneObject == [type |-> "None", predict_proba |-> FALSE, score |-> FALSE]

ModelObjects ==
    { [type |-> "LinearRegression", predict_proba |-> FALSE, score |-> TRUE],
      [type |-> "RandomForestRegressor", predict_proba |-> FALSE, score |-> TRUE],
      [type |-> "RandomForestClassifier", predict_proba |-> TRUE, score |-> TRUE],
      [type |-> "Booster", predict_proba |-> FALSE, score |-> FALSE] }

\* an exception, where a number was expected
Raise == [t |-> "raise", n |-> 0, d |-> 1]

\* the candidate (model, scaler) file pairs, in the order they are tried
possible_paths ==
    << <<"hotspot_model.pkl", "scaler.pkl">>,
       <<"Model/hotspot_model.pkl", "Model/scaler.pkl">>,
       <<"../Model/hotspot_model.pkl", "../Model/scaler.pkl">>,
       <<"hotspot_model.pkl", "scaler (1).pkl">>,
       <<"Model/hotspot_model.pkl", "Model/scaler (1).pkl">>,
       <<"../Model/hotspot_model.pkl", "../Model/scaler (1).pkl">> >>

AllFiles == { possible_paths[i][j] : i \in DOMAIN possible_paths, j \in {1, 2} }

\* the index of the first pair with both files present, 0 if there is none
FoundPair(files) ==
    LET hits == { i \in DOMAIN possible_paths :
                    possible_paths[i][1] \in files /\ possible_paths[i][2] \in files }
    IN  IF hits = {} THEN 0
        ELSE CHOOSE i \in hits : \A j \in hits : i <= j

\* initialize(): called once, from the startup event
Initialize ==
    /\ pc = "constructed"
    /\ \E files \in SUBSET AllFiles,
          model_load \in ModelObjects \cup {NoneObject, [NoneObject EXCEPT !.type = "raise"]},
          scaler_load \in {"StandardScaler", "None", "raise"} :
         IF FoundPair(files) = 0
         THEN /\ is_initialized' = FALSE
              /\ init_log' = "not_found"
              /\ UNCHANGED <<model, scaler>>
         ELSE IF model_load.type = "raise"
         THEN /\ is_initialized' = FALSE
              /\ init_log' = "model_load_raised"
              /\ UNCHANGED <<model, scaler>>
         ELSE IF scaler_load = "raise"
         THEN /\ model' = model_load
              /\ is_initialized' = FALSE
              /\ init_log' = "scaler_load_raised"
              /\ UNCHANGED scaler
         ELSE /\ model' = model_load
              /\ scaler' = scaler_load
              /\ is_initialized' = TRUE
              /\ init_log' = "loaded"
    /\ pc' = "idle"
    /\ UNCHANGED <<lastCall, lastResult>>
    /\ UNCHANGED store

\* is_model_ready() with the scaler forgotten
IsModelReadyModelOnly == is_initialized /\ model # NoneObject

\* is_model_ready()
IsModelReady == is_initialized /\ model # NoneObject /\ scaler # "None"

\* what the scaler and the model do in one inference: transform returns or
\* raises, predict returns a number or raises, predict_proba likewise
NoEnv == [transform |-> "ok", predict |-> Raise, proba |-> Raise]

\* self.feature_columns
feature_columns ==
    <<"AQI", "PopulationDensity", "DistHospital", "DistSchool",
      "DistAirport", "DistBus", "DistRailway", "DistMall">>

\* feature_columns of prepare_data in train_hotspot_model.py: the columns
\* of the matrix the scaler and the model are fitted on
TrainingColumns ==
    <<"AQI", "PopulationDensity", "DistHospital", "DistSchool",
      "DistAirport", "DistBus", "DistRailway", "DistMall">>

\* the defaults of the ML scorer with the airport given the 10.0 of the
\* other amenities
MlDefaultDistanceFlat ==
    [hospital |-> Num(10), school |-> Num(8), airport |-> Num(10),
     bus |-> Num(5), railway |-> Num(15), mall |-> Num(10)]

\* the defaults of the distances.get calls of _calculate_ml_score
MlDefaultDistance ==
    [hospital |-> Num(10), school |-> Num(8), airport |-> Num(30),
     bus |-> Num(5), railway |-> Num(15), mall |-> Num(10)]

\* the feature vector in the order of the rule-based scorer's amenities
FeaturesRuleOrder(aqi, population_density, distances) ==
    << aqi, population_density,
       Get(distances, "hospital", MlDefaultDistance.hospital),
       Get(distances, "school", MlDefaultDistance.school),
       Get(distances, "bus", MlDefaultDistance.bus),
       Get(distances, "railway", MlDefaultDistance.railway),
       Get(distances, "mall", MlDefaultDistance.mall),
       Get(distances, "airport", MlDefaultDistance.airport) >>

\* the feature vector, in the order the array is built
Features(aqi, population_density, distances) ==
    << aqi, population_density,
       Get(distances, "hospital", MlDefaultDistance.hospital),
       Get(distances, "school", MlDefaultDistance.school),
       Get(distances, "airport", MlDefaultDistance.airport),
       Get(distances, "bus", MlDefaultDistance.bus),
       Get(distances, "railway", MlDefaultDistance.railway),
       Get(distances, "mall", MlDefaultDistance.mall) >>

\* np.clip(score, 0.0, 1.0)
Clip(score) ==
    IF Lt(score, Num(0)) THEN Num(0)
    ELSE IF Lt(Num(1), score) THEN Num(1)
    ELSE score

\* an exception in the try body of _calculate_ml_score: .get on a non-mapping,
\* transform on a missing scaler or on a feature that is None (no float), or
\* the scaler or the model raising
MlRaises(aqi, population_density, distances, env) ==
    \/ ~IsDict(distances)
    \/ scaler = "None"
    \/ \E i \in 1 .. Len(Features(aqi, population_density, distances)) :
          IsNone(Features(aqi, population_density, distances)[i])
    \/ env.transform = "raise"
    \/ model = NoneObject
    \/ env.predict = Raise

\* the confidence without the predict_proba branch
MlConfidenceStatic(env) ==
    IF model.score THEN Rat(85, 100) ELSE Rat(9, 10)

\* the confidence of an ML result
MlConfidence(env) ==
    IF model.predict_proba
    THEN IF env.proba = Raise THEN Rat(9, 10) ELSE env.proba
    ELSE IF model.score THEN Rat(85, 100) ELSE Rat(9, 10)

\* MlResult without the clip
MlResultUnclipped(aqi, population_density, distances, env) ==
    [score |-> env.predict,
     confidence |-> MlConfidence(env),
     method |-> "ml_model",
     breakdown |-> [aqi |-> aqi, population_density |-> population_density,
                    distances |-> distances],
     model_type |-> model.type,
     error |-> FALSE]

\* the try body of _calculate_ml_score
MlResult(aqi, population_density, distances, env) ==
    [score |-> Clip(env.predict),
     confidence |-> MlConfidence(env),
     method |-> "ml_model",
     breakdown |-> [aqi |-> aqi, population_density |-> population_density,
                    distances |-> distances],
     model_type |-> model.type,
     error |-> FALSE]

\* an exception leaving a function
Raised == [method |-> "raised"]

\* _calculate_ml_score without its except branch
CalculateMlScoreNoExcept(aqi, population_density, distances, env) ==
    IF MlRaises(aqi, population_density, distances, env)
    THEN Raised
    ELSE MlResult(aqi, population_density, distances, env)

\* _calculate_ml_score: the try body, or the rule-based scorer on any exception
CalculateMlScore(aqi, population_density, distances, env) ==
    IF MlRaises(aqi, population_density, distances, env)
    THEN CalculateFallbackScore(aqi, population_density, distances)
    ELSE MlResult(aqi, population_density, distances, env)

\* the static result of the except branch of calculate_hotspot_score
ErrorFallbackResult ==
    [score |-> Rat(5, 10), confidence |-> Num(0), method |-> "error_fallback",
     breakdown |-> NoBreakdown, error |-> TRUE]

\* the outer try of calculate_hotspot_score around the result r of its body
OrErrorFallback(r) == IF r = Raised THEN ErrorFallbackResult ELSE r

\* calculate_hotspot_score
CalculateHotspotScore(aqi, population_density, distances, env) ==
    OrErrorFallback(
        IF IsModelReady
        THEN CalculateMlScore(aqi, population_density, distances, env)
        ELSE CalculateFallbackScore(aqi, population_density, distances))

(***************************************************************************)
(* The observation of the last operation: its arguments and what it        *)
(* returned                                                                *)
(***************************************************************************)
NoCall == [op |-> "none"]
NoResult == [method |-> "none"]

(***************************************************************************)
(* The request store: a GeoJSON geometry, a cached AOI document, and the   *)
(* state of one analyze_vacant_land request                                *)
(***************************************************************************)
PolygonOf(cells) ==
    [type |-> "Polygon", coordinates |-> "rings", ring_len |-> 5,
     cells |-> cells, simple |-> TRUE]

SelfIntersecting(cells) ==
    [type |-> "Polygon", coordinates |-> "rings", ring_len |-> 5,
     cells |-> cells, simple |-> FALSE]

\* None, as the value of an Optional[AOICache]
NoCachedAoi ==
    [id |-> 0, aoi_geometry |-> PolygonOf({}), analysis_date |-> 0,
     corrupt |-> FALSE]

\* the requests the server works on, one after the other
RequestIds == {"r1"}

\* no response sent yet
NoResponse ==
    [status |-> 0, success |-> FALSE, cached |-> FALSE, origin |-> "none",
     retried |-> FALSE, vacant_land_polygons |-> <<>>]

\* get_vacant_land_polygons not called yet
NoFetch ==
    [raised |-> FALSE, error |-> "none", origin |-> "none",
     authenticated |-> FALSE, step_raised |-> FALSE, escaped |-> FALSE,
     synthetic_calls |-> 0, synthetic_failed |-> FALSE]

IdleRequest ==
    [pc |-> "idle", aoi_geometry |-> PolygonOf({}),
     cursor |-> <<>>, cached_aoi |-> NoCachedAoi, fetch |-> NoFetch,
     aoi_cache_id |-> 0, lookups |-> 0, fetches |-> 0, writes |-> 0,
     calls |-> <<>>, vacant_polygons_data |-> <<>>,
     response |-> NoResponse]

\* the fields set by HotspotScoringService.__init__
Constructed ==
    /\ model = NoneObject
    /\ scaler = "None"
    /\ is_initialized = FALSE
    /\ init_log = "none"
    /\ aoi_cache_collection = <<>>
    /\ vacant_land_collection = <<>>
    /\ utcnow = 0
    /\ requests = [r \in RequestIds |-> IdleRequest]

\* the mapping of the end-to-end scenario of train_hotspot_model.py
ScenarioDistances ==
    [hospital |-> Rat(15, 10), school |-> Rat(8, 10), bus |-> Rat(3, 10),
     railway |-> Num(2), mall |-> Rat(12, 10), airport |-> Num(20)]

EmptyDistances == [k \in {} |-> None]

\* the mapping m with key k set to v
With(m, k, v) ==
    [x \in DOMAIN m \cup {k} |-> IF x = k THEN v ELSE m[x]]

\* the mapping m without key k
Without(m, k) == [x \in DOMAIN m \ {k} |-> m[x]]

(***************************************************************************)
(* The running service: direct calls of calculate_hotspot_score            *)
(***************************************************************************)
\* the raw predictions tried: below 0, the ends, inside, above 1
PredictOutputs ==
    {Rat(-1, 2), Num(0), Rat(1, 3), Rat(95, 100), Num(1), Rat(3, 2)}

ProbaOutputs == {Rat(6, 10), Num(1)}

\* the inference behaviours that matter for the loaded model
\* (what predict does is irrelevant once transform raised, and predict_proba
\* is only called on a model that has it, after predict returned)
Envs ==
    IF ~IsModelReady THEN {NoEnv}
    ELSE {[NoEnv EXCEPT !.transform = "raise"]}
         \cup {NoEnv}
         \cup { [transform |-> "ok", predict |-> p, proba |-> q]
                  : p \in PredictOutputs,
                    q \in IF model.predict_proba
                          THEN ProbaOutputs \cup {Raise} ELSE {Raise} }

ServiceAqi == {Num(45), Num(120), NaN, None}

ServicePop == {Num(5000), Num(12000), None}

ServiceDistances ==
    { ScenarioDistances, EmptyDistances, DefaultDistance,
      With(ScenarioDistances, "hospital", None),
      With(ScenarioDistances, "bus", NaN),
      NotADict }

CalculateHotspotScoreCall ==
    /\ pc = "idle"
    /\ \E aqi \in ServiceAqi, population_density \in ServicePop,
          distances \in ServiceDistances, env \in Envs :
         /\ lastCall' = [op |-> "calculate_hotspot_score", aqi |-> aqi,
                         population_density |-> population_density,
                         distances |-> distances, env |-> env]
         /\ lastResult' =
              CalculateHotspotScore(aqi, population_density, distances, env)
    /\ pc' = "returned"
    /\ UNCHANGED <<model, scaler, is_initialized, init_log>>
    /\ UNCHANGED store

\* the caller takes the result; the service is idle again
ReturnToCaller ==
    /\ pc = "returned"
    /\ pc' = "idle"
    /\ lastCall' = NoCall
    /\ lastResult' = NoResult
    /\ UNCHANGED <<model, scaler, is_initialized, init_log>>
    /\ UNCHANGED store

(***************************************************************************)
(* esa_worldcover_service.py: _calculate_real_hotspot_score                *)
(***************************************************************************)
\* what calculate_aqi_for_location can do: a value, no data, or raise
AqiResults ==
    { [status |-> "ok", data_available |-> TRUE, aqi |-> Num(45)],
      [status |-> "ok", data_available |-> TRUE, aqi |-> Num(120)],
      [status |-> "ok", data_available |-> FALSE, aqi |-> None],
      [status |-> "raise", data_available |-> FALSE, aqi |-> None] }

\* calculate_amenity_distances raising
RaisedDistances == [k \in {"__raised__"} |-> None]

\* what calculate_amenity_distances can do: six distances, or raise
DistanceOutcomes == {ScenarioDistances, DefaultDistance, RaisedDistances}

ParcelAreas ==
    { Num(0), Num(5000), Rat(246913, 20), Num(50000), Num(100000),
      Num(250000), Num(1000000) }

\* the population density every parcel is scored with
StubPopulationDensity == Num(5000)

\* area_bonus
AreaBonus(area_m2) == PyMin(Num(20), Mul(Div(area_m2, Num(50000)), Num(10)))

\* final_score without the cap at 100
FinalScoreUncapped(score_0_100, area_bonus) == Add(score_0_100, area_bonus)

\* final_score
FinalScore(score_0_100, area_bonus) ==
    PyMin(Num(100), Add(score_0_100, area_bonus))

\* the except branch without the cap of fallback_score at 100
ParcelFallbackUncapped(area_m2) ==
    LET area_score == PyMin(Num(100), Mul(Div(area_m2, Num(10000)), Num(20)))
        base_score == Num(60)
        fallback_score == Add(base_score, area_score)
    IN  [score |-> fallback_score,
         aqi_data |-> [data_available |-> FALSE, aqi |-> None],
         population_density |-> StubPopulationDensity,
         distances |-> EmptyDistances,
         method |-> "error_fallback",
         area_bonus |-> Num(0),
         base_score |-> fallback_score]

\* the except branch of _calculate_real_hotspot_score
ParcelFallback(area_m2) ==
    LET area_score == PyMin(Num(100), Mul(Div(area_m2, Num(10000)), Num(20)))
        base_score == Num(60)
        fallback_score == PyMin(Num(100), Add(base_score, area_score))
    IN  [score |-> fallback_score,
         aqi_data |-> [data_available |-> FALSE, aqi |-> None],
         population_density |-> StubPopulationDensity,
         distances |-> EmptyDistances,
         method |-> "error_fallback",
         area_bonus |-> Num(0),
         base_score |-> fallback_score]

\* an exception in the try body of _calculate_real_hotspot_score
ParcelRaises(aqi_result, distances) ==
    \/ aqi_result.status = "raise"
    \/ distances = RaisedDistances

\* the returned mapping of the try body, from the values computed by the
\* statements before it
ParcelReturn(aqi_result, distances, method, score_0_100, area_bonus) ==
    After(<<score_0_100, area_bonus>>,
        [score |-> PyRound(FinalScore(score_0_100, area_bonus), 10),
         aqi_data |-> [data_available |-> aqi_result.data_available,
                       aqi |-> aqi_result.aqi],
         population_density |-> StubPopulationDensity,
         distances |-> distances,
         method |-> method,
         area_bonus |-> area_bonus,
         base_score |-> score_0_100])

\* the try body from score_result on: score_0_100, area_bonus, final_score
ParcelScored(area_m2, aqi_result, distances, score_result) ==
    After(<<score_result>>,
        ParcelReturn(aqi_result, distances, score_result.method,
                     Mul(score_result.score, Num(100)), AreaBonus(area_m2)))

\* _calculate_real_hotspot_score
CalculateRealHotspotScore(area_m2, aqi_result, distances, env) ==
    IF ParcelRaises(aqi_result, distances)
    THEN ParcelFallback(area_m2)
    ELSE ParcelScored(area_m2, aqi_result, distances,
             CalculateHotspotScore(
                 IF aqi_result.data_available THEN aqi_result.aqi ELSE Num(100),
                 StubPopulationDensity, distances, env))

CalculateRealHotspotScoreCall ==
    /\ pc = "idle"
    /\ \E area_m2 \in ParcelAreas, aqi_result \in AqiResults,
          distances \in DistanceOutcomes, env \in Envs :
         /\ ParcelRaises(aqi_result, distances) => env = NoEnv
         /\ lastCall' = [op |-> "_calculate_real_hotspot_score",
                         area_m2 |-> area_m2, aqi_result |-> aqi_result,
                         distances |-> distances, env |-> env]
         /\ lastResult' =
              CalculateRealHotspotScore(area_m2, aqi_result, distances, env)
    /\ pc' = "returned"
    /\ UNCHANGED <<model, scaler, is_initialized, init_log>>
    /\ UNCHANGED store

Init ==
    /\ pc = "constructed"
    /\ Constructed
    /\ lastCall = NoCall
    /\ lastResult = NoResult

Next ==
    \/ Initialize
    \/ CalculateHotspotScoreCall
    \/ CalculateRealHotspotScoreCall
    \/ ReturnToCaller

Spec == Init /\ [][Next]_vars

(***************************************************************************)
(* distance_score as a pure function: two distances under one pair of      *)
(* thresholds                                                              *)
(***************************************************************************)
GridSteps == 16

\* the distances tried for one amenity: a grid over its decay range, a few
\* steps to either side of it, zero, a negative distance and NaN
DecayDistances(key) ==
    { Add(Optimal[key],
          Mul(Rat(i, GridSteps), Sub(MaxAcceptable[key], Optimal[key])))
        : i \in -2 .. GridSteps + 2 }
    \cup {Num(0), Num(-1), DefaultDistance[key], NaN}

DistanceScoreCall ==
    /\ pc = "distance_score"
    /\ lastResult' =
         [method |-> "distance_score",
          value |-> distance_score(lastCall.dist, lastCall.optimal,
                                   lastCall.max_acceptable),
          value2 |-> distance_score(lastCall.dist2, lastCall.optimal,
                                    lastCall.max_acceptable)]
    /\ pc' = "returned"
    /\ UNCHANGED <<model, scaler, is_initialized, init_log, lastCall>>
    /\ UNCHANGED store

InitDecay ==
    /\ pc = "distance_score"
    /\ Constructed
    /\ \E key \in AmenityKeys :
         \E d1 \in DecayDistances(key), d2 \in DecayDistances(key) :
            lastCall = [op |-> "distance_score", key |-> key,
                        optimal |-> Optimal[key],
                        max_acceptable |-> MaxAcceptable[key],
                        dist |-> d1, dist2 |-> d2]
    /\ lastResult = NoResult

SpecDecay == InitDecay /\ [][DistanceScoreCall]_vars

(***************************************************************************)
(* distance_score under arbitrary threshold pairs, those with              *)
(* max_acceptable <= optimal included                                      *)
(***************************************************************************)
ThresholdValues == {Num(1), Num(2), Num(3)}

ThresholdDistances ==
    {Num(-1), Num(0), Num(1), Rat(3, 2), Num(2), Rat(5, 2), Num(3), Num(4),
     NaN}

InitThresholds ==
    /\ pc = "distance_score"
    /\ Constructed
    /\ \E optimal \in ThresholdValues, max_acceptable \in ThresholdValues,
          d1 \in ThresholdDistances, d2 \in ThresholdDistances :
            lastCall = [op |-> "distance_score", key |-> "any",
                        optimal |-> optimal,
                        max_acceptable |-> max_acceptable,
                        dist |-> d1, dist2 |-> d2]
    /\ lastResult = NoResult

SpecThresholds == InitThresholds /\ [][DistanceScoreCall]_vars

(***************************************************************************)
(* _calculate_fallback_score as a pure function                            *)
(***************************************************************************)
AqiInputs ==
    { Num(a) : a \in {0, 45, 50, 51, 100, 101, 150, 151, 200, 201, 500} }
    \cup {Rat(101, 2), NaN, None}

PopInputs ==
    { Num(p) : p \in {0, 999, 1000, 4999, 5000, 12000, 14999, 15000,
                      24999, 25000, 30000} }
    \cup {NaN, None}

BaseDistances ==
    { EmptyDistances,
      ScenarioDistances,
      [k \in AmenityKeys |-> Optimal[k]],
      [k \in AmenityKeys |-> MaxAcceptable[k]],
      [k \in AmenityKeys |->
          Add(Optimal[k], Mul(Rat(1, 2), Sub(MaxAcceptable[k], Optimal[k])))] }

\* the values one key is overridden with
KeyValues(key) ==
    { Add(Optimal[key],
          Mul(Rat(i, GridSteps), Sub(MaxAcceptable[key], Optimal[key])))
        : i \in {1, GridSteps - 1} }
    \cup {Num(0), Num(-1), NaN, None}

DistanceInputs ==
    BaseDistances
    \cup UNION { { With(m, k, v) : v \in KeyValues(k) }
                   : <<m, k>> \in BaseDistances \X AmenityKeys }
    \cup { Without(m, k) : <<m, k>> \in BaseDistances \X AmenityKeys }
    \cup {NotADict}

RuleCall ==
    /\ pc = "rule"
    /\ lastResult' = CalculateFallbackScore(lastCall.aqi,
                                            lastCall.population_density,
                                            lastCall.distances)
    /\ pc' = "returned"
    /\ UNCHANGED <<model, scaler, is_initialized, init_log, lastCall>>
    /\ UNCHANGED store

InitRule ==
    /\ pc = "rule"
    /\ Constructed
    /\ \E aqi \in AqiInputs, population_density \in PopInputs,
          distances \in DistanceInputs :
            lastCall = [op |-> "rule", aqi |-> aqi,
                        population_density |-> population_density,
                        distances |-> distances]
    /\ lastResult = NoResult

SpecRule == InitRule /\ [][RuleCall]_vars

(***************************************************************************)
(* The two scorers side by side on mappings with missing keys: the         *)
(* feature vector of _calculate_ml_score and the rule-based result         *)
(***************************************************************************)
\* the statement of lines 130-139 of _calculate_ml_score
PrepareFeaturesCall ==
    /\ pc = "features"
    /\ lastResult' = [method |-> "features",
                      features |-> Features(lastCall.aqi,
                                            lastCall.population_density,
                                            lastCall.distances)]
    /\ pc' = "returned"
    /\ UNCHANGED <<model, scaler, is_initialized, init_log, lastCall>>
    /\ UNCHANGED store

\* the scenario mapping cut down to each set of keys
PartialDistances ==
    {[k \in keys |-> ScenarioDistances[k]] : keys \in SUBSET AmenityKeys}

InitFeatures ==
    /\ pc \in {"features", "rule"}
    /\ Constructed
    /\ \E aqi \in {Num(45), Num(120)},
          population_density \in {Num(12000), Num(5000)},
          distances \in PartialDistances :
            lastCall = [op |-> pc, aqi |-> aqi,
                        population_density |-> population_density,
                        distances |-> distances]
    /\ lastResult = NoResult

NextFeatures == PrepareFeaturesCall \/ RuleCall

SpecFeatures == InitFeatures /\ [][NextFeatures]_vars

(***************************************************************************)
(* hotspots_service.py: the overlap ratio of find_overlapping_cache, as a  *)
(* pure function of the requested and the cached polygon.  A polygon is    *)
(* the set of unit cells of a small grid it covers; the empty set is a     *)
(* degenerate ring, which shapely accepts with area 0.                     *)
(***************************************************************************)
GridCells == 4

Polygons == SUBSET (1 .. GridCells)

\* polygon.area
Area(polygon) == Cardinality(polygon)

\* the overlap ratio with the requested polygon's area as the divisor
OverlapRatioOfRequested(aoi_polygon, cached_polygon) ==
    LET intersection_area == Area(aoi_polygon \cap cached_polygon)
        aoi_area == Area(aoi_polygon)
    IN  IF aoi_area > 0 THEN Rat(intersection_area, aoi_area) ELSE Num(0)

\* overlap_ratio
OverlapRatio(aoi_polygon, cached_polygon) ==
    LET intersection_area == Area(aoi_polygon \cap cached_polygon)
        union_area == Area(aoi_polygon \cup cached_polygon)
    IN  IF union_area > 0 THEN Rat(intersection_area, union_area) ELSE Num(0)

\* the thresholds callers pass: the route's 0.7 and the default 0.8
OverlapThresholds == {Rat(7, 10), Rat(8, 10)}

OverlapRatioCall ==
    /\ pc = "overlap_ratio"
    /\ LET overlap_ratio == OverlapRatio(lastCall.aoi_polygon,
                                         lastCall.cached_polygon)
       IN  lastResult' =
             [method |-> "overlap_ratio",
              overlap_ratio |-> overlap_ratio,
              matched |-> Leq(lastCall.overlap_threshold, overlap_ratio)]
    /\ pc' = "returned"
    /\ UNCHANGED <<model, scaler, is_initialized, init_log, lastCall>>
    /\ UNCHANGED store

InitOverlap ==
    /\ pc = "overlap_ratio"
    /\ Constructed
    /\ \E aoi_polygon \in Polygons, cached_polygon \in Polygons,
          overlap_threshold \in OverlapThresholds :
            lastCall = [op |-> "overlap_ratio",
                        aoi_polygon |-> aoi_polygon,
                        cached_polygon |-> cached_polygon,
                        overlap_threshold |-> overlap_threshold]
    /\ lastResult = NoResult

SpecOverlap == InitOverlap /\ [][OverlapRatioCall]_vars

(***************************************************************************)
(* hotspots_service.py: find_overlapping_cache.  A GeoJSON geometry is a   *)
(* record of its type, of what its coordinates member is ("missing", an    *)
(* "empty_list", or "rings"), of the length of its first ring, of the      *)
(* cells the ring covers and of whether the ring is simple (a ring that    *)
(* crosses itself is not).  A cached document carries its _id, its         *)
(* aoi_geometry and its analysis_date in days; a corrupt document is one   *)
(* that shape() or the AOICache constructor rejects.                                *)
(***************************************************************************)
\* timedelta(days=30)
CacheTtlDays == 30

\* $geoIntersects: the two geometries share a point, a boundary point
\* included; cells i and i + 1 share an edge
GeoIntersects(a, b) == \E i \in a, j \in b : Abs(i - j) <= 1

\* the server rejects a $geometry whose loop is not valid; find raises
FindRaises(aoi_geometry) == ~aoi_geometry.simple

\* the query without its analysis_date condition
FindAnyDate(aoi_geometry, collection, now) ==
    SelectSeq(collection,
              LAMBDA doc : GeoIntersects(aoi_geometry.cells,
                                         doc.aoi_geometry.cells))

\* aoi_cache_collection.find({...}): the documents the cursor yields, in
\* the order it yields them
Find(aoi_geometry, collection, now) ==
    SelectSeq(collection,
              LAMBDA doc :
                  /\ GeoIntersects(aoi_geometry.cells, doc.aoi_geometry.cells)
                  /\ doc.analysis_date >= now - CacheTtlDays)

\* the test of line 73 on one document of the cursor
Qualifies(aoi_geometry, overlap_threshold, cached_aoi_doc) ==
    /\ ~cached_aoi_doc.corrupt
    /\ Leq(overlap_threshold,
           OverlapRatio(aoi_geometry.cells, cached_aoi_doc.aoi_geometry.cells))

\* the loop returning the document with the highest overlap ratio
RECURSIVE BestMatch(_, _, _)
BestMatch(aoi_geometry, overlap_threshold, cursor) ==
    IF cursor = <<>> THEN NoCachedAoi
    ELSE LET cached_aoi_doc == Head(cursor)
             rest == BestMatch(aoi_geometry, overlap_threshold, Tail(cursor))
         IN  IF ~Qualifies(aoi_geometry, overlap_threshold, cached_aoi_doc)
             THEN rest
             ELSE IF rest = NoCachedAoi THEN cached_aoi_doc
             ELSE IF Lt(OverlapRatio(aoi_geometry.cells,
                                     cached_aoi_doc.aoi_geometry.cells),
                        OverlapRatio(aoi_geometry.cells,
                                     rest.aoi_geometry.cells))
             THEN rest
             ELSE cached_aoi_doc

\* async for cached_aoi_doc in cursor: the first document that passes the
\* test is returned; a document that raises is skipped
RECURSIVE FirstMatch(_, _, _)
FirstMatch(aoi_geometry, overlap_threshold, cursor) ==
    IF cursor = <<>> THEN NoCachedAoi
    ELSE IF Qualifies(aoi_geometry, overlap_threshold, Head(cursor))
         THEN Head(cursor)
         ELSE FirstMatch(aoi_geometry, overlap_threshold, Tail(cursor))

\* find_overlapping_cache
FindOverlappingCache(aoi_geometry, overlap_threshold, collection, now) ==
    IF FindRaises(aoi_geometry) THEN NoCachedAoi
    ELSE FirstMatch(aoi_geometry, overlap_threshold,
                    Find(aoi_geometry, collection, now))

MaxDocs == 2

\* the polygons of the cached documents and of the requests
CachedPolygons == {{1, 2, 3}, {1, 2, 3, 4}, {4, 5}, {6}}
LookupAois ==
    {PolygonOf({1, 2, 3, 4}), PolygonOf({1, 2, 3}), PolygonOf({}),
     SelfIntersecting({1, 2, 3, 4})}
AnalysisDates == {0, 1, 31}
QueryTimes == {31, 32}

CachedDocs(id) ==
    {[id |-> id, aoi_geometry |-> PolygonOf(cells), analysis_date |-> date,
      corrupt |-> corrupt] :
        cells \in CachedPolygons, date \in AnalysisDates,
        corrupt \in BOOLEAN}

\* the collections of at most MaxDocs documents, document i with _id i
Collections ==
    UNION {{c \in [1 .. n -> UNION {CachedDocs(id) : id \in 1 .. n}] :
              \A i \in 1 .. n : c[i].id = i} : n \in 0 .. MaxDocs}

FindOverlappingCacheCall ==
    /\ pc = "find_overlapping_cache"
    /\ lastResult' =
         [method |-> "find_overlapping_cache",
          cursor |-> IF FindRaises(lastCall.aoi_geometry) THEN <<>>
                     ELSE Find(lastCall.aoi_geometry, lastCall.collection,
                               lastCall.utcnow),
          cached_aoi |-> FindOverlappingCache(lastCall.aoi_geometry,
                                              lastCall.overlap_threshold,
                                              lastCall.collection,
                                              lastCall.utcnow)]
    /\ pc' = "returned"
    /\ UNCHANGED <<model, scaler, is_initialized, init_log, lastCall>>
    /\ UNCHANGED store

InitLookup ==
    /\ pc = "find_overlapping_cache"
    /\ Constructed
    /\ \E aoi_geometry \in LookupAois,
          overlap_threshold \in OverlapThresholds,
          collection \in Collections, now \in QueryTimes :
            lastCall = [op |-> "find_overlapping_cache",
                        aoi_geometry |-> aoi_geometry,
                        overlap_threshold |-> overlap_threshold,
                        collection |-> collection,
                        utcnow |-> now]
    /\ lastResult = NoResult

SpecLookup == InitLookup /\ [][FindOverlappingCacheCall]_vars

(***************************************************************************)
(* esa_worldcover_service.py: get_vacant_land_polygons.  env gives the     *)
(* outcome of each step that talks to Earth Engine and of each call of     *)
(* the synthetic generator; the result records where the polygons come     *)
(* from and what happened on the way.                                      *)
(***************************************************************************)
StepOutcomes == {"ok", "raise"}

\* _generate_synthetic_vacant_land returns, or raises a TopologyException
\* from shapely, or raises something else
SyntheticOutcomes == {"ok", "TopologyException", "other"}

\* an exception leaves the Earth Engine steps of lines 93-169: the geometry
\* validation and the square geometry both raise, or loading and masking
\* the dataset raises, or both vectorizations raise
EeEscaped(env) ==
    \/ env.validate = "raise" /\ env.square = "raise"
    \/ env.load = "raise"
    \/ env.high = "raise" /\ env.low = "raise"

\* some Earth Engine step raised, whether or not it was recovered in place
EeStepRaised(env) ==
    \/ env.validate = "raise"
    \/ env.load = "raise"
    \/ env.high = "raise"
    \/ env.results = "raise"

\* the outcomes that differ in what the function does: a step that is not
\* reached is "ok"
EeEnvs ==
    {env \in [authenticated : BOOLEAN, validate : StepOutcomes,
              square : StepOutcomes, load : StepOutcomes,
              high : StepOutcomes, low : StepOutcomes,
              results : StepOutcomes,
              synthetic : [1 .. 2 -> SyntheticOutcomes]] :
        /\ ~env.authenticated =>
             /\ env.validate = "ok" /\ env.load = "ok"
             /\ env.high = "ok" /\ env.results = "ok"
        /\ env.validate = "ok" => env.square = "ok"
        /\ (env.validate = "raise" /\ env.square = "raise") =>
             env.load = "ok"
        /\ ((env.validate = "raise" /\ env.square = "raise")
              \/ env.load = "raise") => env.high = "ok"
        /\ env.high = "ok" => env.low = "ok"
        /\ (EeEscaped(env) \/ ~env.authenticated) => env.results = "ok"
        /\ (env.authenticated /\ ~EeEscaped(env)) =>
             env.synthetic[1] = "ok"
        /\ (env.authenticated \/ env.synthetic[1] = "ok") =>
             env.synthetic[2] = "ok"}

\* the polygons of _process_gee_results
RealPolygons(env) ==
    [raised |-> FALSE, error |-> "none", origin |-> "ESA_WorldCover_GEE",
     authenticated |-> TRUE, step_raised |-> EeStepRaised(env),
     escaped |-> FALSE, synthetic_calls |-> 0, synthetic_failed |-> FALSE]

\* the outcome of the calls-th call of _generate_synthetic_vacant_land
SyntheticPolygons(env, calls) ==
    LET outcome == env.synthetic[calls]
    IN  [raised |-> outcome # "ok",
         error |-> IF outcome = "ok" THEN "none" ELSE outcome,
         origin |-> IF outcome = "ok" THEN "Synthetic_Fallback" ELSE "none",
         authenticated |-> env.authenticated,
         step_raised |-> EeStepRaised(env),
         escaped |-> env.authenticated \/ calls = 2,
         synthetic_calls |-> calls,
         synthetic_failed |-> outcome # "ok"]

\* get_vacant_land_polygons with its except branch removed
GetVacantLandPolygonsNoExcept(env) ==
    IF ~env.authenticated THEN SyntheticPolygons(env, 1)
    ELSE IF EeEscaped(env)
    THEN [raised |-> TRUE, error |-> "other", origin |-> "none",
          authenticated |-> TRUE, step_raised |-> TRUE, escaped |-> TRUE,
          synthetic_calls |-> 0, synthetic_failed |-> FALSE]
    ELSE RealPolygons(env)

\* get_vacant_land_polygons: the synthetic generator is called at line 80
\* when Earth Engine is not authenticated, and at line 196 for every
\* exception of the try block, the one of line 80 included
GetVacantLandPolygons(env) ==
    IF ~env.authenticated
    THEN IF env.synthetic[1] = "ok" THEN SyntheticPolygons(env, 1)
         ELSE SyntheticPolygons(env, 2)
    ELSE IF EeEscaped(env) THEN SyntheticPolygons(env, 1)
    ELSE RealPolygons(env)

(***************************************************************************)
(* esa_worldcover_service.py: the polygon lists of _process_gee_results    *)
(* and _generate_synthetic_vacant_land.  A feature of the vectorization is *)
(* its geometry type, its area, the score _calculate_real_hotspot_score    *)
(* gives it and whether processing it raises; a candidate of the synthetic *)
(* generator is whether it intersects the AOI, its random area and its     *)
(* score.                                                                  *)
(***************************************************************************)
\* one element of the list returned: f"gee_vacant_{i}" or
\* f"synthetic_gee_{i}" as <<prefix, i>>, the area in hectares
Polygon(prefix, i, area, hotspot_score, data_source) ==
    [id |-> <<prefix, i>>, area |-> area, hotspot_score |-> hotspot_score,
     data_source |-> data_source]

\* the feature loop with the polygons appended in the order of the features
\* and no sort
RECURSIVE FeatureLoop(_, _, _, _, _)
FeatureLoop(features, i, min_area_m2, max_polygons, processed) ==
    IF i > Len(features) \/ i > max_polygons THEN processed
    ELSE LET feature == features[i]
             keep == /\ feature.type = "Polygon"
                     /\ ~feature.raises
                     /\ feature.area_m2 >= min_area_m2
         IN  FeatureLoop(features, i + 1, min_area_m2, max_polygons,
               IF keep
               THEN Append(processed,
                           Polygon("gee_vacant", i - 1,
                                   Rat(feature.area_m2, 10000),
                                   feature.score, "ESA_WorldCover_GEE"))
               ELSE processed)

\* list.sort(key=hotspot_score, reverse=True): stable, highest first
RECURSIVE SortByScoreDescending(_)
SortByScoreDescending(polygons) ==
    IF polygons = <<>> THEN <<>>
    ELSE LET n == Len(polygons)
             last == polygons[n]
             sorted == SortByScoreDescending(SubSeq(polygons, 1, n - 1))
             ahead == {j \in 1 .. n - 1 :
                         Leq(last.hotspot_score, sorted[j].hotspot_score)}
             at == Cardinality(ahead)
         IN  SubSeq(sorted, 1, at) \o <<last>> \o SubSeq(sorted, at + 1, n - 1)

\* _process_gee_results; an exception outside the feature loop gives []
ProcessGeeResults(features, min_area_m2, max_polygons, raises) ==
    IF raises THEN <<>>
    ELSE SortByScoreDescending(
           FeatureLoop(features, 1, min_area_m2, max_polygons, <<>>))

\* the loop of _generate_synthetic_vacant_land: every candidate that
\* intersects the AOI is appended
RECURSIVE GenerateSyntheticVacantLand(_, _, _)
GenerateSyntheticVacantLand(candidates, i, polygons) ==
    IF i > Len(candidates) THEN polygons
    ELSE GenerateSyntheticVacantLand(candidates, i + 1,
           IF candidates[i].intersects
           THEN Append(polygons,
                       Polygon("synthetic_gee", i - 1,
                               candidates[i].area_ha, candidates[i].score,
                               "Synthetic_Fallback"))
           ELSE polygons)

\* the list get_vacant_land_polygons returns when it took the path of
\* fetch: the processed features on the Earth Engine path, the generated
\* polygons on the synthetic path
VacantLandPolygons(fetch, results_raise, features, candidates, min_area_m2, max_polygons) ==
    IF fetch.raised THEN <<>>
    ELSE IF fetch.origin = "Synthetic_Fallback"
    THEN GenerateSyntheticVacantLand(candidates, 1, <<>>)
    ELSE ProcessGeeResults(features, min_area_m2, max_polygons,
                           results_raise)

(***************************************************************************)
(* get_vacant_land_polygons as a pure function of what Earth Engine and    *)
(* the random generator deliver                                            *)
(***************************************************************************)
MaxFeatures == 3

\* random.randint(3, 8) candidates, the 8 capped
MinGenerated == 3
MaxGenerated == 3

FeatureKinds ==
    {[type |-> "Polygon", area_m2 |-> 6000, score |-> Num(40),
      raises |-> FALSE],
     [type |-> "Polygon", area_m2 |-> 30000, score |-> Num(90),
      raises |-> FALSE],
     [type |-> "Polygon", area_m2 |-> 3000, score |-> Num(70),
      raises |-> FALSE],
     [type |-> "MultiPolygon", area_m2 |-> 30000, score |-> Num(70),
      raises |-> FALSE],
     [type |-> "Polygon", area_m2 |-> 30000, score |-> Num(70),
      raises |-> TRUE]}

\* random.uniform(0.5, 8.0) hectares
CandidateKinds ==
    {[intersects |-> FALSE, area_ha |-> Num(1), score |-> Num(0)]}
    \cup {[intersects |-> TRUE, area_ha |-> a, score |-> sc] :
            a \in {Rat(1, 2), Num(8)}, sc \in {Num(40), Num(90)}}

FeatureLists ==
    UNION {[1 .. n -> FeatureKinds] : n \in 0 .. MaxFeatures}

CandidateLists ==
    UNION {[1 .. n -> CandidateKinds] : n \in MinGenerated .. MaxGenerated}

MinAreas == {5000, 20000}
MaxPolygonCounts == {1, 100}

GetVacantLandPolygonsCall ==
    /\ pc = "get_vacant_land_polygons"
    /\ LET fetch == GetVacantLandPolygons(lastCall.env)
       IN  lastResult' =
             [method |-> "get_vacant_land_polygons",
              fetch |-> fetch,
              polygons |-> VacantLandPolygons(fetch,
                              lastCall.env.results = "raise",
                              lastCall.features, lastCall.candidates,
                              lastCall.min_area_m2, lastCall.max_polygons)]
    /\ pc' = "returned"
    /\ UNCHANGED <<model, scaler, is_initialized, init_log, lastCall>>
    /\ UNCHANGED store

\* the features matter on the Earth Engine path only, the candidates on the
\* synthetic path only
InitPolygons ==
    /\ pc = "get_vacant_land_polygons"
    /\ Constructed
    /\ \E env \in EeEnvs, min_area_m2 \in MinAreas,
          max_polygons \in MaxPolygonCounts :
         LET real == env.authenticated /\ ~EeEscaped(env)
         IN  \E features \in IF real THEN FeatureLists ELSE {<<>>},
                candidates \in IF real THEN {<<>>} ELSE CandidateLists :
                  lastCall = [op |-> "get_vacant_land_polygons",
                              env |-> env, features |-> features,
                              candidates |-> candidates,
                              min_area_m2 |-> min_area_m2,
                              max_polygons |-> max_polygons]
    /\ lastResult = NoResult

SpecPolygons == InitPolygons /\ [][GetVacantLandPolygonsCall]_vars

(***************************************************************************)
(* api/routes/vacant_land.py: analyze_vacant_land, one action for each     *)
(* stretch of the handler between two awaits that touch the collections    *)
(***************************************************************************)
\* the geometries of the requests: three proper polygons, a Point, a
\* Polygon without coordinates, one with coordinates [], one with an empty
\* first ring and one with a ring of three coordinates
RouteAois ==
    {PolygonOf({1, 2, 3}), PolygonOf({1, 2, 3, 4}),
     PolygonOf({1, 2, 3, 4, 5}), SelfIntersecting({1, 2, 3}),
     [PolygonOf({}) EXCEPT !.type = "Point"],
     [PolygonOf({}) EXCEPT !.coordinates = "missing", !.ring_len = 0],
     [PolygonOf({}) EXCEPT !.coordinates = "empty_list", !.ring_len = 0],
     [PolygonOf({}) EXCEPT !.ring_len = 0],
     [PolygonOf({}) EXCEPT !.ring_len = 3]}

\* overlap_threshold=0.7
RouteOverlapThreshold == Rat(7, 10)

\* lines 82-89: the status of the exception the checks end in, 0 when the
\* geometry passes them.  coordinates [] makes the subscript [0] of line 86
\* raise IndexError, which the handler of line 223 turns into a 500.
ValidationStatus(aoi_geometry) ==
    IF aoi_geometry.type # "Polygon" THEN 400
    ELSE IF aoi_geometry.coordinates = "empty_list" THEN 500
    ELSE IF aoi_geometry.coordinates = "missing" THEN 400
    ELSE IF aoi_geometry.ring_len < 4 THEN 400
    ELSE 0

\* raise HTTPException(status_code=status)
ErrorResponse(status) == [NoResponse EXCEPT !.status = status]

\* the response polygons of lines 160-175: every field of the polygon is
\* copied, data_source included
ResponsePolygons(vacant_polygons_data) ==
    [i \in DOMAIN vacant_polygons_data |->
       [id |-> vacant_polygons_data[i].id,
        area |-> vacant_polygons_data[i].area,
        score |-> vacant_polygons_data[i].hotspot_score,
        data_source |-> vacant_polygons_data[i].data_source]]

\* the response polygons of lines 115-122 and 244-251: id, geometry, area
\* and score are copied, data_source keeps its default None
BareResponsePolygons(vacant_polygons) ==
    [i \in DOMAIN vacant_polygons |->
       [id |-> vacant_polygons[i].id,
        area |-> vacant_polygons[i].area,
        score |-> vacant_polygons[i].hotspot_score,
        data_source |-> "None"]]

\* VacantLandAnalysis(vacant_polygons=...).dict(): the fields of the model
\* VacantLandPolygon of models/hotspots.py, which has no data_source
StoredPolygons(vacant_polygons) ==
    [i \in DOMAIN vacant_polygons |->
       [id |-> vacant_polygons[i].id,
        area |-> vacant_polygons[i].area,
        hotspot_score |-> vacant_polygons[i].hotspot_score]]

\* return VacantLandResponse(success=True, ...); origin is where the
\* polygons of the response came from
SuccessResponse(cached, origin, retried, vacant_land_polygons) ==
    [status |-> 200, success |-> TRUE, cached |-> cached,
     origin |-> origin, retried |-> retried,
     vacant_land_polygons |-> vacant_land_polygons]

\* min_area_m2 and max_polygons of a request that does not set them
RouteMinAreaM2 == 5000
RouteMaxPolygons == 100

\* what the vectorization and the synthetic generator come up with for a
\* request: two features, three candidates
RouteFound ==
    {[features |-> <<[type |-> "Polygon", area_m2 |-> 6000,
                      score |-> Num(40), raises |-> FALSE],
                     [type |-> "Polygon", area_m2 |-> 30000,
                      score |-> Num(90), raises |-> FALSE]>>,
      candidates |-> <<[intersects |-> TRUE, area_ha |-> Num(8),
                        score |-> Num(40)],
                       [intersects |-> FALSE, area_ha |-> Num(1),
                        score |-> Num(0)],
                       [intersects |-> TRUE, area_ha |-> Rat(1, 2),
                        score |-> Num(90)]>>]}

\* the rectangle of aoi_bounds, which _create_square_geometry builds
BoundingRectangle(aoi_geometry) == PolygonOf(aoi_geometry.cells)

\* the geometry the analysis of a call ran on: the rectangle when Earth
\* Engine is authenticated and the validation of the polygon raised, the
\* aoi_geometry argument otherwise (the synthetic generator included)
GeometryUsed(env, aoi_geometry) ==
    IF env.authenticated /\ env.validate = "raise"
    THEN BoundingRectangle(aoi_geometry)
    ELSE aoi_geometry

\* one call of get_vacant_land_polygons as the route makes it
CallOf(env, aoi_geometry) ==
    [aoi_geometry |-> aoi_geometry, use_square_fallback |-> TRUE,
     used |-> GeometryUsed(env, aoi_geometry)]

\* the scoring service and the call variables, which the route leaves alone
scoring == <<pc, model, scaler, is_initialized, init_log, lastCall,
             lastResult>>

\* a request arrives
ReceiveRequest(r) ==
    /\ requests[r].pc \in {"idle", "done"}
    /\ \E aoi_geometry \in RouteAois :
         requests' = [requests EXCEPT ![r] =
                        [IdleRequest EXCEPT !.pc = "received",
                                            !.aoi_geometry = aoi_geometry]]
    /\ UNCHANGED <<scoring, aoi_cache_collection, vacant_land_collection,
                   utcnow>>

\* lines 68-105: the checks of the geometry, the bounding box and
\* find_overlapping_cache
ValidateAndFindCache(r) ==
    LET request == requests[r]
        status == ValidationStatus(request.aoi_geometry)
        cursor == IF FindRaises(request.aoi_geometry) THEN <<>>
                  ELSE Find(request.aoi_geometry, aoi_cache_collection,
                            utcnow)
        cached_aoi == FindOverlappingCache(request.aoi_geometry,
                                           RouteOverlapThreshold,
                                           aoi_cache_collection, utcnow)
    IN  /\ request.pc = "received"
        /\ requests' = [requests EXCEPT ![r] =
             IF status # 0
             THEN [request EXCEPT !.pc = "done",
                                  !.response = ErrorResponse(status)]
             ELSE [request EXCEPT
                     !.pc = IF cached_aoi # NoCachedAoi THEN "cache_found"
                            ELSE "processing",
                     !.cursor = cursor,
                     !.cached_aoi = cached_aoi,
                     !.lookups = @ + 1]]
        /\ UNCHANGED <<scoring, aoi_cache_collection, vacant_land_collection,
                       utcnow>>

\* find_one({"aoi_cache_id": aoi_cache_id}): the positions of the analyses
\* of the cached AOI
AnalysesOf(aoi_cache_id) ==
    {i \in DOMAIN vacant_land_collection :
        vacant_land_collection[i].aoi_cache_id = aoi_cache_id}

\* lines 107-133: get_cached_analysis, which returns None when the query
\* raises, and the cached response
GetCachedAnalysis(r) ==
    LET request == requests[r]
        found == AnalysesOf(request.cached_aoi.id)
    IN  /\ request.pc = "cache_found"
        /\ \E outcome \in StepOutcomes :
             requests' = [requests EXCEPT ![r] =
               IF outcome = "ok" /\ found # {}
               THEN LET first == CHOOSE i \in found :
                                    \A j \in found : i <= j
                    IN  [request EXCEPT
                           !.pc = "done",
                           !.response =
                              SuccessResponse(TRUE,
                                  vacant_land_collection[first].origin,
                                  FALSE,
                                  BareResponsePolygons(
                                    vacant_land_collection[first]
                                      .vacant_polygons))]
               ELSE [request EXCEPT !.pc = "processing"]]
        /\ UNCHANGED <<scoring, aoi_cache_collection, vacant_land_collection,
                       utcnow>>

\* lines 135-193: get_vacant_land_polygons and the conversion; an
\* exception goes to the handler of lines 223-274
FetchPolygons(r) ==
    LET request == requests[r]
    IN  /\ request.pc = "processing"
        /\ \E env \in EeEnvs, found \in RouteFound :
             LET fetch == GetVacantLandPolygons(env)
             IN  requests' = [requests EXCEPT ![r] =
                   [request EXCEPT
                      !.fetch = fetch,
                      !.fetches = @ + 1,
                      !.calls = Append(@, CallOf(env, request.aoi_geometry)),
                      !.vacant_polygons_data =
                         VacantLandPolygons(fetch, env.results = "raise",
                                            found.features, found.candidates,
                                            RouteMinAreaM2, RouteMaxPolygons),
                      !.pc = IF ~fetch.raised THEN "caching"
                             ELSE IF fetch.error = "TopologyException"
                             THEN "retrying"
                             ELSE "done",
                      !.response = IF fetch.raised
                                      /\ fetch.error # "TopologyException"
                                   THEN ErrorResponse(500)
                                   ELSE @]]
        /\ UNCHANGED <<scoring, aoi_cache_collection, vacant_land_collection,
                       utcnow>>

\* lines 228-272: the second call of get_vacant_land_polygons after a
\* TopologyException; its result is returned without being cached
RetryWithSquareFallback(r) ==
    LET request == requests[r]
    IN  /\ request.pc = "retrying"
        /\ \E env \in EeEnvs, found \in RouteFound :
             LET fetch == GetVacantLandPolygons(env)
                 vacant_polygons_data ==
                     VacantLandPolygons(fetch, env.results = "raise",
                                        found.features, found.candidates,
                                        RouteMinAreaM2, RouteMaxPolygons)
             IN  requests' = [requests EXCEPT ![r] =
                   [request EXCEPT
                      !.fetch = fetch,
                      !.fetches = @ + 1,
                      !.calls = Append(@, CallOf(env, request.aoi_geometry)),
                      !.vacant_polygons_data = vacant_polygons_data,
                      !.pc = "done",
                      !.response = IF fetch.raised THEN ErrorResponse(500)
                                   ELSE SuccessResponse(FALSE, fetch.origin,
                                          TRUE,
                                          BareResponsePolygons(
                                            vacant_polygons_data))]]
        /\ UNCHANGED <<scoring, aoi_cache_collection, vacant_land_collection,
                       utcnow>>

\* the insert of the AOI document as an upsert by region: a request whose
\* AOI overlaps a stored one by the threshold reuses that document
InsertAoiCacheOnce(r) ==
    LET request == requests[r]
        same == {i \in DOMAIN aoi_cache_collection :
                   Qualifies(request.aoi_geometry, RouteOverlapThreshold,
                             aoi_cache_collection[i])}
        aoi_cache_id == IF same # {} THEN CHOOSE i \in same : TRUE
                        ELSE Len(aoi_cache_collection) + 1
    IN  /\ request.pc = "caching"
        /\ \/ /\ Len(aoi_cache_collection) < MaxDocs \/ same # {}
              /\ request.aoi_geometry.simple
              /\ aoi_cache_collection' =
                   IF same # {} THEN aoi_cache_collection
                   ELSE Append(aoi_cache_collection,
                               [id |-> aoi_cache_id,
                                aoi_geometry |-> request.aoi_geometry,
                                analysis_date |-> utcnow,
                                corrupt |-> FALSE])
              /\ requests' = [requests EXCEPT ![r] =
                   [request EXCEPT !.pc = "caching_analysis",
                                   !.aoi_cache_id = aoi_cache_id,
                                   !.writes = @ + 1]]
           \/ /\ requests' = [requests EXCEPT ![r] =
                   [request EXCEPT
                      !.pc = "done",
                      !.response = SuccessResponse(FALSE,
                                     request.fetch.origin, FALSE,
                                     ResponsePolygons(
                                       request.vacant_polygons_data))]]
              /\ UNCHANGED aoi_cache_collection
        /\ UNCHANGED <<scoring, vacant_land_collection, utcnow>>

\* cache_aoi_analysis, lines 112-129: the AOI document is inserted; when
\* the insert raises the route logs a warning and answers all the same.
\* The collection holds at most MaxDocs documents: a further insert raises.
InsertAoiCache(r) ==
    LET request == requests[r]
        aoi_cache_id == Len(aoi_cache_collection) + 1
    IN  /\ request.pc = "caching"
        /\ \/ /\ Len(aoi_cache_collection) < MaxDocs
              /\ request.aoi_geometry.simple
              /\ aoi_cache_collection' =
                   Append(aoi_cache_collection,
                          [id |-> aoi_cache_id,
                           aoi_geometry |-> request.aoi_geometry,
                           analysis_date |-> utcnow,
                           corrupt |-> FALSE])
              /\ requests' = [requests EXCEPT ![r] =
                   [request EXCEPT !.pc = "caching_analysis",
                                   !.aoi_cache_id = aoi_cache_id,
                                   !.writes = @ + 1]]
           \/ /\ requests' = [requests EXCEPT ![r] =
                   [request EXCEPT
                      !.pc = "done",
                      !.response = SuccessResponse(FALSE,
                                     request.fetch.origin, FALSE,
                                     ResponsePolygons(
                                       request.vacant_polygons_data))]]
              /\ UNCHANGED aoi_cache_collection
        /\ UNCHANGED <<scoring, vacant_land_collection, utcnow>>

\* cache_aoi_analysis, lines 131-147, and the response of lines 208-218:
\* the analysis is inserted unless building or inserting it raises
InsertAnalysis(r) ==
    LET request == requests[r]
    IN  /\ request.pc = "caching_analysis"
        /\ \E outcome \in StepOutcomes :
             /\ vacant_land_collection' =
                  IF outcome = "ok"
                  THEN Append(vacant_land_collection,
                              [aoi_cache_id |-> request.aoi_cache_id,
                               origin |-> request.fetch.origin,
                               vacant_polygons |->
                                 StoredPolygons(
                                   request.vacant_polygons_data)])
                  ELSE vacant_land_collection
             /\ requests' = [requests EXCEPT ![r] =
                  [request EXCEPT
                     !.pc = "done",
                     !.writes = IF outcome = "ok" THEN @ + 1 ELSE @,
                     !.response = SuccessResponse(FALSE,
                                    request.fetch.origin, FALSE,
                                    ResponsePolygons(
                                      request.vacant_polygons_data))]]
        /\ UNCHANGED <<scoring, aoi_cache_collection, utcnow>>

InitRoute ==
    /\ pc = "serving"
    /\ Constructed
    /\ lastCall = NoCall
    /\ lastResult = NoResult

NextRoute ==
    \/ \E r \in RequestIds : ReceiveRequest(r)
    \/ \E r \in RequestIds : ValidateAndFindCache(r)
    \/ \E r \in RequestIds : GetCachedAnalysis(r)
    \/ \E r \in RequestIds : FetchPolygons(r)
    \/ \E r \in RequestIds : RetryWithSquareFallback(r)
    \/ \E r \in RequestIds : InsertAoiCache(r)
    \/ \E r \in RequestIds : InsertAnalysis(r)

SpecRoute == InitRoute /\ [][NextRoute]_vars

(***************************************************************************)
(* Two requests served concurrently: the event loop switches between them  *)
(* at every await of the handler.  Both ask for one of two AOIs that       *)
(* overlap by 3/4, and get_vacant_land_polygons succeeds with no step      *)
(* raising.                                                                *)
(***************************************************************************)
ConcurrentIds == {"r1", "r2"}

ConcurrentAois == {PolygonOf({1, 2, 3}), PolygonOf({1, 2, 3, 4})}

InitConcurrent ==
    /\ pc = "serving"
    /\ model = NoneObject
    /\ scaler = "None"
    /\ is_initialized = FALSE
    /\ init_log = "none"
    /\ aoi_cache_collection = <<>>
    /\ vacant_land_collection = <<>>
    /\ utcnow = 0
    /\ requests = [r \in ConcurrentIds |-> IdleRequest]
    /\ lastCall = NoCall
    /\ lastResult = NoResult

\* each of the two requests arrives once, with one of the two AOIs
ReceiveConcurrent(r) ==
    /\ requests[r].pc = "idle"
    /\ ReceiveRequest(r)
    /\ requests'[r].aoi_geometry \in ConcurrentAois

\* get_vacant_land_polygons returns a non-empty list, no step raising
FetchSucceeds(r) ==
    /\ FetchPolygons(r)
    /\ ~requests'[r].fetch.raised
    /\ ~requests'[r].fetch.step_raised
    /\ requests'[r].vacant_polygons_data # <<>>

NextConcurrent ==
    \/ \E r \in ConcurrentIds : ReceiveConcurrent(r)
    \/ \E r \in ConcurrentIds : ValidateAndFindCache(r)
    \/ \E r \in ConcurrentIds : GetCachedAnalysis(r)
    \/ \E r \in ConcurrentIds : FetchSucceeds(r)
    \/ \E r \in ConcurrentIds : InsertAoiCache(r)
    \/ \E r \in ConcurrentIds : InsertAnalysis(r)

SpecConcurrent == InitConcurrent /\ [][NextConcurrent]_vars

(***************************************************************************)
(* distance_service.py: calculate_amenity_distances                        *)
(***************************************************************************)
\* the keys of amenity_types, in the order the tasks are created
amenity_types == <<"hospital", "school", "bus", "railway", "mall", "airport">>

\* the flat 10.0 in place of the table of defaults
default_distances_flat == [k \in AmenityKeys |-> Num(10)]

\* the table used when a lookup found no place
default_distances ==
    [hospital |-> Num(10), school |-> Num(8), bus |-> Num(5),
     railway |-> Num(15), mall |-> Num(10), airport |-> Num(30)]

\* what one element of the gather result can be: a list of places (their
\* distance_km, closest first), an Exception object, or the CancelledError
\* (a BaseException) of a lookup that was cancelled
Places(distance_km) == [t |-> "places", distance_km |-> distance_km]
ExceptionObject == [t |-> "Exception", distance_km |-> <<>>]
CancelledError == [t |-> "CancelledError", distance_km |-> <<>>]

\* find_nearby_places under one outcome of the Places request
FindNearbyPlaces(initialized, outcome) ==
    IF ~initialized THEN Places(<<>>)
    ELSE CASE outcome.kind = "found" -> Places(outcome.distance_km)
           [] outcome.kind = "none" -> Places(<<>>)
           [] outcome.kind = "raised" -> Places(<<>>)
           [] outcome.kind = "cancelled" -> CancelledError

\* min(place['distance_km'] for place in places)
RECURSIVE MinOf(_)
MinOf(seq) ==
    IF Len(seq) = 1 THEN seq[1]
    ELSE LET rest == MinOf(Tail(seq))
         IN  IF Lt(rest, seq[1]) THEN rest ELSE seq[1]

\* the body of the loop over the tasks for one amenity
AmenityDistance(amenity_key, result) ==
    LET places == IF result.t = "Exception" THEN Places(<<>>) ELSE result
    IN  IF places.t = "CancelledError" THEN Num(10)
        ELSE IF places.distance_km # <<>>
             THEN PyRound(MinOf(places.distance_km), 100)
             ELSE default_distances[amenity_key]

RECURSIVE AmenityLoop(_, _, _)
AmenityLoop(i, results, distances) ==
    IF i > Len(amenity_types) THEN distances
    ELSE AmenityLoop(i + 1, results,
           [k \in DOMAIN distances \cup {amenity_types[i]} |->
              IF k = amenity_types[i]
              THEN AmenityDistance(k, results[k])
              ELSE distances[k]])

calculate_amenity_distances(initialized, outcomes) ==
    AmenityLoop(1,
                [k \in AmenityKeys |->
                   FindNearbyPlaces(initialized, outcomes[k])],
                EmptyDistances)

\* the lists of places a lookup can find
PlaceLists ==
    {<<Rat(3, 10)>>, <<Rat(12345, 10000), Num(2)>>}

LookupOutcomes ==
    {[kind |-> "found", distance_km |-> p] : p \in PlaceLists}
    \cup {[kind |-> k, distance_km |-> <<>>] :
            k \in {"none", "raised", "cancelled"}}

\* without the API key no request is made
NoLookups == [k \in AmenityKeys |-> [kind |-> "none", distance_km |-> <<>>]]

CalculateAmenityDistancesCall ==
    /\ pc = "calculate_amenity_distances"
    /\ lastResult' =
         [method |-> "calculate_amenity_distances",
          distances |-> calculate_amenity_distances(lastCall.initialized,
                                                    lastCall.outcomes)]
    /\ pc' = "returned"
    /\ UNCHANGED <<model, scaler, is_initialized, init_log, lastCall>>
    /\ UNCHANGED store

InitDistances ==
    /\ pc = "calculate_amenity_distances"
    /\ Constructed
    /\ \E initialized \in BOOLEAN :
         \E outcomes \in [AmenityKeys -> LookupOutcomes] :
            /\ ~initialized => outcomes = NoLookups
            /\ lastCall = [op |-> "calculate_amenity_distances",
                           initialized |-> initialized,
                           outcomes |-> outcomes]
    /\ lastResult = NoResult

SpecDistances == InitDistances /\ [][CalculateAmenityDistancesCall]_vars

(***************************************************************************)
(* Model/train_hotspot_model.py: the model and the scaler the training     *)
(* script saves, and the features the saved regressor receives             *)
(***************************************************************************)
\* the keys of models in train_and_compare_models
ModelNames ==
    {"Linear Regression", "Ridge Regression", "Lasso Regression",
     "Random Forest", "Gradient Boosting", "Support Vector Regression"}

\* the names fitted on X_train_scaled
ScaledModelNames ==
    {"Linear Regression", "Ridge Regression", "Lasso Regression",
     "Support Vector Regression"}

\* the matrix a model name is fitted on in train_and_compare_models
TrainingMatrix(name) ==
    IF name \in ScaledModelNames THEN "X_train_scaled" ELSE "X_train"

\* one entry of model_results
ModelResult(name) ==
    [model |-> [type |-> name, fitted_on |-> TrainingMatrix(name),
                tuned |-> FALSE],
     uses_scaling |-> name \in ScaledModelNames]

\* hyperparameter_tuning: the estimator refitted by the grid search on
\* X_tune, or the compared model when the name has no grid or the search
\* raises
HyperparameterTuning(best_model_name, best_model_info, grid_search) ==
    LET X_tune ==
            IF best_model_name \in {"Random Forest", "Gradient Boosting"}
            THEN "X_train"
            ELSE "X_train_scaled"
    IN  IF best_model_name \notin {"Random Forest", "Gradient Boosting",
                                   "Ridge Regression",
                                   "Support Vector Regression"}
        THEN best_model_info.model
        ELSE IF grid_search = "raise"
        THEN best_model_info.model
        ELSE [type |-> best_model_name, fitted_on |-> X_tune,
              tuned |-> TRUE]

\* the three files of save_model_and_scaler
SaveModelAndScaler(final_model, fitted_scaler, best_model_name, best_model_info) ==
    [hotspot_model |-> final_model,
     scaler_pkl |-> fitted_scaler,
     model_metadata |-> [model_type |-> best_model_name,
                         feature_columns |-> TrainingColumns,
                         uses_scaling |-> best_model_info.uses_scaling]]

\* StandardScaler.transform: (x - mean_) / scale_, column by column
ScalerTransform(fitted_scaler, features) ==
    [i \in 1 .. Len(features) |->
        Div(Sub(features[i], fitted_scaler.mean_[i]),
            fitted_scaler.scale_[i])]

\* the scalers prepare_data may fit: mean_ and scale_ of the eight columns
\* of X_train
FittedScalers ==
    {[mean_ |-> <<Num(100), Num(8000), Num(5), Num(4), Num(25), Num(2),
                  Num(8), Num(5)>>,
      scale_ |-> <<Num(50), Num(4000), Num(4), Num(3), Num(10), Num(2),
                   Num(6), Num(4)>>],
     [mean_ |-> <<Num(80), Num(10000), Num(3), Num(2), Num(30), Num(1),
                  Num(5), Num(3)>>,
      scale_ |-> <<Num(40), Num(5000), Num(2), Num(1), Num(15), Num(1),
                   Num(4), Num(2)>>]}

\* test_scenarios of test_saved_model, as feature rows
TestScenarios ==
    {<<Num(45), Num(12000), Rat(15, 10), Rat(8, 10), Num(20), Rat(3, 10),
       Num(2), Rat(12, 10)>>,
     <<Num(75), Num(8000), Num(3), Num(2), Num(25), Num(1), Num(5),
       Num(3)>>,
     <<Num(150), Num(1500), Num(15), Num(12), Num(45), Num(8), Num(20),
       Num(18)>>}

\* the row test_saved_model hands to loaded_model.predict
TestSavedModelInput(files, features) ==
    IF files.model_metadata.uses_scaling
    THEN [applied |-> TRUE,
          row |-> ScalerTransform(files.scaler_pkl, features)]
    ELSE [applied |-> FALSE, row |-> features]

\* the row _calculate_ml_score hands to self.model.predict
CalculateMlScoreInput(files, features) ==
    [applied |-> TRUE, row |-> ScalerTransform(files.scaler_pkl, features)]

\* train_and_compare_models, with the name of the highest test R2 drawn
TrainAndCompareModelsStep ==
    /\ pc = "train_and_compare_models"
    /\ lastResult' = [method |-> "training",
                      best_model_info |-> ModelResult(lastCall.best_model_name)]
    /\ pc' = "hyperparameter_tuning"
    /\ UNCHANGED <<model, scaler, is_initialized, init_log, lastCall>>
    /\ UNCHANGED store

HyperparameterTuningStep ==
    /\ pc = "hyperparameter_tuning"
    /\ lastResult' =
         [method |-> "training",
          best_model_info |-> lastResult.best_model_info,
          final_model |-> HyperparameterTuning(lastCall.best_model_name,
                             lastResult.best_model_info,
                             lastCall.grid_search)]
    /\ pc' = "save_model_and_scaler"
    /\ UNCHANGED <<model, scaler, is_initialized, init_log, lastCall>>
    /\ UNCHANGED store

SaveModelAndScalerStep ==
    /\ pc = "save_model_and_scaler"
    /\ lastResult' =
         [method |-> "training",
          files |-> SaveModelAndScaler(lastResult.final_model,
                       lastCall.fitted_scaler, lastCall.best_model_name,
                       lastResult.best_model_info)]
    /\ pc' = "saved"
    /\ UNCHANGED <<model, scaler, is_initialized, init_log, lastCall>>
    /\ UNCHANGED store

\* test_saved_model predicts one scenario with the saved files
TestSavedModelStep ==
    /\ pc = "saved"
    /\ lastResult' =
         [method |-> "test_saved_model",
          files |-> lastResult.files,
          input |-> TestSavedModelInput(lastResult.files, lastCall.features)]
    /\ pc' = "returned"
    /\ UNCHANGED <<model, scaler, is_initialized, init_log, lastCall>>
    /\ UNCHANGED store

\* the service loads hotspot_model.pkl and scaler.pkl and predicts the same
\* features in _calculate_ml_score
CalculateMlScoreStep ==
    /\ pc = "saved"
    /\ lastResult' =
         [method |-> "_calculate_ml_score",
          files |-> lastResult.files,
          input |-> CalculateMlScoreInput(lastResult.files,
                                          lastCall.features)]
    /\ pc' = "returned"
    /\ UNCHANGED <<model, scaler, is_initialized, init_log, lastCall>>
    /\ UNCHANGED store

InitTraining ==
    /\ pc = "train_and_compare_models"
    /\ Constructed
    /\ \E name \in ModelNames, grid_search \in {"ok", "raise"},
          fitted_scaler \in FittedScalers, features \in TestScenarios :
            lastCall = [op |-> "train_hotspot_model",
                        best_model_name |-> name,
                        grid_search |-> grid_search,
                        fitted_scaler |-> fitted_scaler,
                        features |-> features]
    /\ lastResult = NoResult

NextTraining ==
    \/ TrainAndCompareModelsStep
    \/ HyperparameterTuningStep
    \/ SaveModelAndScalerStep
    \/ TestSavedModelStep
    \/ CalculateMlScoreStep

SpecTraining == InitTraining /\ [][NextTraining]_vars

(***************************************************************************)
(* Properties of the rule-based scorer and of distance_score               *)
(***************************************************************************)
Returned(op) == pc = "returned" /\ lastCall.op = op

\* the weighted sum as the specification writes it, over the exact sub-scores
\* of the call
SpecWeightedSum(call) ==
    LET sub(k) == AmenityScore(call.distances, k)
    IN  Add(Mul(AqiScore(call.aqi), Rat(25, 100)),
        Add(Mul(PopScore(call.population_density), Rat(20, 100)),
        Add(Mul(sub("hospital"), Rat(15, 100)),
        Add(Mul(sub("school"), Rat(15, 100)),
        Add(Mul(sub("bus"), Rat(10, 100)),
        Add(Mul(sub("railway"), Rat(5, 100)),
        Add(Mul(sub("mall"), Rat(8, 100)),
            Mul(sub("airport"), Rat(2, 100)))))))))

Clamp01(x) == IF Lt(x, Num(0)) THEN Num(0) ELSE IF Lt(Num(1), x) THEN Num(1) ELSE x

AllSubScoresOne(call) ==
    /\ AqiScore(call.aqi) = Num(1)
    /\ PopScore(call.population_density) = Num(1)
    /\ \A k \in AmenityKeys : AmenityScore(call.distances, k) = Num(1)

\* C3 as stated: the rule-based score equals the clamped weighted sum itself
C3_ScoreIsClampedWeightedSum ==
    (Returned("rule") /\ lastResult.method = "rule_based_fallback")
        => lastResult.score = Clamp01(SpecWeightedSum(lastCall))

\* C3 as amended: the rule-based score equals the weighted sum
\* aqi*0.25 + population*0.20 + hospital*0.15 + school*0.15 + bus*0.10 +
\* railway*0.05 + mall*0.08 + airport*0.02, clamped to [0,1] and then rounded
\* to 4 decimal places; the eight weights sum to exactly 1, so that all
\* sub-scores at 1.0 give exactly 1.0
C3_ScoreIsRoundedClampedWeightedSum ==
    /\ Add(Rat(25, 100), Add(Rat(20, 100), Add(Rat(15, 100), Add(Rat(15, 100),
       Add(Rat(10, 100), Add(Rat(5, 100), Add(Rat(8, 100), Rat(2, 100))))))))
         = Num(1)
    /\ (Returned("rule") /\ lastResult.method = "rule_based_fallback")
         => /\ lastResult.score =
                 PyRound(Clamp01(SpecWeightedSum(lastCall)), 10000)
            /\ AllSubScoresOne(lastCall) => lastResult.score = Num(1)

\* a call whose weighted sum has more than 4 decimals: 5117/5120 =
\* 0.9994140625 is returned as 0.9994
C3_Witness ==
    /\ Returned("rule")
    /\ lastResult.method = "rule_based_fallback"
    /\ SpecWeightedSum(lastCall) = Rat(5117, 5120)
    /\ lastResult.score = Rat(9994, 10000)

\* C5: for each of the six threshold pairs distance_score is exactly 1.0 for
\* every distance <= optimal, exactly 0.0 for every distance >= max_acceptable
\* (distance = max_acceptable included), and max(0, 1 - t^2) with
\* t = (distance - optimal) / (max_acceptable - optimal) in between
C5_DecayShape ==
    (Returned("distance_score") /\ IsNum(lastCall.dist))
        => LET dist == lastCall.dist
               o == lastCall.optimal
               m == lastCall.max_acceptable
               t == Div(Sub(dist, o), Sub(m, o))
               curve == Sub(Num(1), Mul(t, t))
           IN  /\ dist.n * o.d <= o.n * dist.d => lastResult.value = Num(1)
               /\ dist.n * m.d >= m.n * dist.d => lastResult.value = Num(0)
               /\ (dist.n * o.d > o.n * dist.d /\ dist.n * m.d < m.n * dist.d)
                    => lastResult.value =
                         (IF curve.n < 0 THEN Num(0) ELSE curve)

\* the bus distance exactly at max_acceptable scores 0.0
C5_Witness ==
    /\ Returned("distance_score")
    /\ lastCall.key = "bus"
    /\ lastCall.dist = lastCall.max_acceptable
    /\ lastResult.value = Num(0)

\* C6: distance_score is monotonically non-increasing in the distance: under
\* the same thresholds, d1 <= d2 implies score(d1) >= score(d2)
C6_DecayMonotone ==
    (/\ Returned("distance_score")
     /\ IsNum(lastCall.dist) /\ IsNum(lastCall.dist2)
     /\ lastCall.dist.n * lastCall.dist2.d <= lastCall.dist2.n * lastCall.dist.d)
        => lastResult.value.n * lastResult.value2.d
             >= lastResult.value2.n * lastResult.value.d

\* two distances strictly inside the decay range, the nearer scoring strictly
\* higher
C6_Witness ==
    /\ Returned("distance_score")
    /\ Lt(lastCall.optimal, lastCall.dist)
    /\ Lt(lastCall.dist, lastCall.dist2)
    /\ Lt(lastCall.dist2, lastCall.max_acceptable)
    /\ Lt(lastResult.value2, lastResult.value)
    /\ Lt(Num(0), lastResult.value2)

\* C7: the AQI sub-score is 1.0 for aqi <= 50, 0.8 for aqi <= 100, 0.5 for
\* aqi <= 150, 0.3 for aqi <= 200 and 0.1 otherwise; in particular
\* 50 -> 1.0, 51 -> 0.8, 150 -> 0.5, 151 -> 0.3, 500 -> 0.1
C7_AqiTiers ==
    (Returned("rule") /\ lastResult.method = "rule_based_fallback"
        /\ IsNum(lastCall.aqi))
        => LET a == lastCall.aqi
               s == lastResult.breakdown.aqi_score
           IN  /\ s = (IF a.n <= 50 * a.d THEN Num(1)
                       ELSE IF a.n <= 100 * a.d THEN Rat(8, 10)
                       ELSE IF a.n <= 150 * a.d THEN Rat(5, 10)
                       ELSE IF a.n <= 200 * a.d THEN Rat(3, 10)
                       ELSE Rat(1, 10))
               /\ a = Num(50) => s = Num(1)
               /\ a = Num(51) => s = Rat(8, 10)
               /\ a = Num(150) => s = Rat(5, 10)
               /\ a = Num(151) => s = Rat(3, 10)
               /\ a = Num(500) => s = Rat(1, 10)

\* aqi = 51 scored 0.8
C7_Witness ==
    /\ Returned("rule")
    /\ lastCall.aqi = Num(51)
    /\ lastResult.method = "rule_based_fallback"
    /\ lastResult.breakdown.aqi_score = Rat(8, 10)

\* C8: the population sub-score is 0.2 for density < 1000, 0.6 for < 5000,
\* 1.0 for < 15000, 0.8 for < 25000 and 0.4 otherwise; in particular
\* 999 -> 0.2, 1000 -> 0.6, 14999 -> 1.0, 25000 -> 0.4
C8_PopulationTiers ==
    (Returned("rule") /\ lastResult.method = "rule_based_fallback"
        /\ IsNum(lastCall.population_density))
        => LET p == lastCall.population_density
               s == lastResult.breakdown.population_score
           IN  /\ s = (IF p.n < 1000 * p.d THEN Rat(2, 10)
                       ELSE IF p.n < 5000 * p.d THEN Rat(6, 10)
                       ELSE IF p.n < 15000 * p.d THEN Num(1)
                       ELSE IF p.n < 25000 * p.d THEN Rat(8, 10)
                       ELSE Rat(4, 10))
               /\ p = Num(999) => s = Rat(2, 10)
               /\ p = Num(1000) => s = Rat(6, 10)
               /\ p = Num(14999) => s = Num(1)
               /\ p = Num(25000) => s = Rat(4, 10)

\* density = 25000 scored 0.4
C8_Witness ==
    /\ Returned("rule")
    /\ lastCall.population_density = Num(25000)
    /\ lastResult.method = "rule_based_fallback"
    /\ lastResult.breakdown.population_score = Rat(4, 10)

(***************************************************************************)
(* Properties of the scoring service                                       *)
(***************************************************************************)
Methods == {"ml_model", "rule_based_fallback", "error_fallback", "error"}

\* an exception was raised in the ML inference of the call: while building
\* the features, in the scaler, or in predict
MlFailed(call) ==
    \/ ~IsDict(call.distances)
    \/ call.aqi = None
    \/ call.population_density = None
    \/ \E k \in AmenityKeys \cap DOMAIN call.distances :
          call.distances[k] = None
    \/ call.env.transform = "raise"
    \/ call.env.predict = Raise

\* the arguments make the rule-based scorer raise: a None among the values it
\* compares, or a distances argument without .get
RuleFails(call) ==
    \/ call.aqi = None
    \/ call.population_density = None
    \/ ~IsDict(call.distances)
    \/ \E k \in AmenityKeys \cap DOMAIN call.distances :
          call.distances[k] = None

\* C1: whatever the input and the state of the service (model ready, not
\* ready, model raising), the score returned by calculate_hotspot_score is a
\* number in [0,1], under each of the methods
C1_ScoreInUnitInterval ==
    Returned("calculate_hotspot_score")
        => /\ lastResult.method \in Methods
           /\ lastResult.score.t = "num"
           /\ 0 <= lastResult.score.n
           /\ lastResult.score.n <= lastResult.score.d

\* a raw prediction of 1.5 returned as the score 1.0 of method ml_model
C1_Witness ==
    /\ Returned("calculate_hotspot_score")
    /\ lastCall.env.transform = "ok"
    /\ lastCall.env.predict = Rat(3, 2)
    /\ lastResult.method = "ml_model"
    /\ lastResult.score = Num(1)

\* C2: calculate_hotspot_score never propagates an exception: when the ML
\* inference raises (features, scaler or predict) the caller gets the result
\* of the rule-based scorer, with method rule_based_fallback, and when the
\* rule-based scorer itself raises the caller gets the static result
\* score 0.5, confidence 0.0, method "error"
C2_NoExceptionEscapes ==
    Returned("calculate_hotspot_score")
        => /\ lastResult.method \in Methods
           /\ (IsModelReady /\ MlFailed(lastCall) /\ ~RuleFails(lastCall))
                => /\ lastResult.method = "rule_based_fallback"
                   /\ lastResult = RuleBasedResult(lastCall.aqi,
                                        lastCall.population_density,
                                        lastCall.distances)
           /\ ((~IsModelReady \/ MlFailed(lastCall)) /\ RuleFails(lastCall))
                => /\ lastResult.method = "error"
                   /\ lastResult.score = Rat(1, 2)
                   /\ lastResult.confidence = Num(0)

\* a loaded model whose predict raises: the rule-based result is returned
C2_Witness ==
    /\ Returned("calculate_hotspot_score")
    /\ IsModelReady
    /\ lastCall.env.transform = "ok"
    /\ lastCall.env.predict = Raise
    /\ IsDict(lastCall.distances)
    /\ lastResult.method = "rule_based_fallback"

\* initialize did not load both files
InitFailed ==
    init_log \in {"not_found", "model_load_raised", "scaler_load_raised"}

\* C4 as stated: after a failed initialize every call returns method
\* rule_based_fallback with confidence 0.7
C4_NotReadyAlwaysRuleBased ==
    /\ IsModelReady
         => (init_log = "loaded" /\ model # NoneObject /\ scaler # "None")
    /\ InitFailed => ~IsModelReady
    /\ (InitFailed /\ Returned("calculate_hotspot_score"))
         => /\ lastResult.method = "rule_based_fallback"
            /\ lastResult.confidence = Rat(7, 10)

\* C4 as amended: the service is ready only if initialize loaded both a model
\* and a scaler; if initialize found no file pair or failed part-way,
\* is_model_ready() is false in every later state and every call returns
\* exactly what the rule-based scorer returns for its arguments: method
\* rule_based_fallback with confidence 0.7 when the arguments are numbers,
\* and the static error result when they make the rule-based scorer raise
C4_NotReadyDelegatesToRuleBased ==
    /\ IsModelReady
         => (init_log = "loaded" /\ model # NoneObject /\ scaler # "None")
    /\ InitFailed => ~IsModelReady
    /\ (InitFailed /\ Returned("calculate_hotspot_score"))
         => IF RuleFails(lastCall)
            THEN /\ lastResult.method = "error"
                 /\ lastResult.score = Rat(1, 2)
                 /\ lastResult.confidence = Num(0)
            ELSE /\ lastResult.method = "rule_based_fallback"
                 /\ lastResult.confidence = Rat(7, 10)
                 /\ lastResult = RuleBasedResult(lastCall.aqi,
                                      lastCall.population_density,
                                      lastCall.distances)

\* the model was loaded and the scaler load raised; a later call is answered
\* by the rule-based scorer
C4_Witness ==
    /\ init_log = "scaler_load_raised"
    /\ model # NoneObject
    /\ Returned("calculate_hotspot_score")
    /\ lastResult.method = "rule_based_fallback"
    /\ lastResult.confidence = Rat(7, 10)

\* the parcel was scored by the try body of _calculate_real_hotspot_score
ParcelSucceeded ==
    /\ Returned("_calculate_real_hotspot_score")
    /\ lastCall.aqi_result.status = "ok"
    /\ lastCall.distances # RaisedDistances

\* x rounded to one decimal, ties to even, as an integer number of tenths
Tenths(x) ==
    LET ds == DivScale(x.n % x.d, x.d, 10)
        q == (x.n \div x.d) * 10 + ds[1]
    IN  IF 2 * ds[2] > x.d \/ (2 * ds[2] = x.d /\ q % 2 = 1) THEN q + 1 ELSE q

\* C9: on the success path the final hotspot score is
\* min(100, score*100 + min(20, (area_m2/50000)*10)) rounded to 1 decimal, and
\* so never exceeds 100: base 95 with area bonus 20 gives 100, not 115
C9_FinalScoreCapped ==
    ParcelSucceeded
        => LET area == lastCall.area_m2
               aqi == IF lastCall.aqi_result.data_available
                      THEN lastCall.aqi_result.aqi ELSE Num(100)
               scored == CalculateHotspotScore(aqi, StubPopulationDensity,
                             lastCall.distances, lastCall.env)
               base == Mul(scored.score, Num(100))
               raw == Div(area, Num(5000))
               bonus == IF raw.n >= 20 * raw.d THEN Num(20) ELSE raw
               sum == Add(base, bonus)
               capped == IF sum.n >= 100 * sum.d THEN Num(100) ELSE sum
           IN  /\ lastResult.base_score = base
               /\ lastResult.area_bonus = bonus
               /\ lastResult.score = Rat(Tenths(capped), 10)
               /\ lastResult.score.n <= 100 * lastResult.score.d
               /\ (base = Num(95) /\ bonus = Num(20))
                    => lastResult.score = Num(100)

\* base 95 plus area bonus 20, returned as 100
C9_Witness ==
    /\ ParcelSucceeded
    /\ lastResult.base_score = Num(95)
    /\ lastResult.area_bonus = Num(20)
    /\ lastResult.score = Num(100)

(***************************************************************************)
(* Properties of the overlap matcher                                       *)
(***************************************************************************)
\* C10: overlap_ratio is area(requested /\ cached) / area(requested \/ cached),
\* and 0 when the union has no area; two identical polygons (of some area)
\* give 1.0 and two disjoint polygons give 0.0
C10_OverlapRatio ==
    Returned("overlap_ratio")
        => LET requested == lastCall.aoi_polygon
               cached == lastCall.cached_polygon
               inter == Cardinality(requested \cap cached)
               union == Cardinality(requested \cup cached)
               ratio == lastResult.overlap_ratio
           IN  /\ IsNum(ratio)
               /\ union = 0 => ratio = Num(0)
               /\ union > 0 => ratio.n * union = inter * ratio.d
               /\ (requested = cached /\ union > 0) => ratio = Num(1)
               /\ requested \cap cached = {} => ratio = Num(0)

\* two polygons of two cells sharing one: a third of their union
C10_Witness ==
    /\ Returned("overlap_ratio")
    /\ lastCall.aoi_polygon = {1, 2}
    /\ lastCall.cached_polygon = {2, 3}
    /\ lastResult.overlap_ratio = Rat(1, 3)

(***************************************************************************)
(* Properties of find_overlapping_cache                                    *)
(***************************************************************************)
\* a document of the collection that overlaps the requested polygon fully
\* and is older than 30 days
StaleFullOverlap(doc) ==
    /\ ~doc.corrupt
    /\ lastCall.utcnow - doc.analysis_date > CacheTtlDays
    /\ OverlapRatio(lastCall.aoi_geometry.cells, doc.aoi_geometry.cells)
         = Num(1)

\* C11: find_overlapping_cache never returns a cached AOI record whose
\* analysis date is more than 30 days before the time of the query, whatever
\* its overlap with the requested polygon: the record it returns, if any, is
\* a document of the collection dated at most 30 days before the query.
C11_NoStaleRecordReturned ==
    Returned("find_overlapping_cache") =>
        LET cached_aoi == lastResult.cached_aoi
        IN  cached_aoi # NoCachedAoi =>
              /\ \E i \in DOMAIN lastCall.collection :
                    lastCall.collection[i] = cached_aoi
              /\ ~(lastCall.utcnow - cached_aoi.analysis_date > CacheTtlDays)

\* a 31 day old document with the very polygon of the request is in the
\* collection, and the lookup returned none
C11_Witness ==
    /\ Returned("find_overlapping_cache")
    /\ \E i \in DOMAIN lastCall.collection :
          StaleFullOverlap(lastCall.collection[i])
    /\ \A i \in DOMAIN lastCall.collection :
          lastCall.utcnow - lastCall.collection[i].analysis_date
            > CacheTtlDays
    /\ lastResult.cached_aoi = NoCachedAoi

(***************************************************************************)
(* Properties of analyze_vacant_land                                       *)
(***************************************************************************)
\* the overlap ratio of a document with the polygon of a request
RatioWith(request, doc) ==
    OverlapRatio(request.aoi_geometry.cells, doc.aoi_geometry.cells)

\* C12: find_overlapping_cache returns the first record, in the order the
\* query yields them, whose overlap ratio is at least the threshold, whether
\* or not a later record overlaps more; it never returns a record whose
\* ratio is below the threshold; and when no record qualifies it returns
\* none and the request goes on to the full computation.
C12_FirstQualifyingRecord ==
    \A r \in RequestIds :
        LET request == requests[r]
            cursor == request.cursor
        IN  request.lookups > 0 =>
              /\ request.cached_aoi # NoCachedAoi =>
                   \E i \in DOMAIN cursor :
                      /\ cursor[i] = request.cached_aoi
                      /\ Leq(RouteOverlapThreshold,
                             RatioWith(request, cursor[i]))
                      /\ \A j \in 1 .. i - 1 :
                            Lt(RatioWith(request, cursor[j]),
                               RouteOverlapThreshold)
              /\ (\A i \in DOMAIN cursor :
                     Lt(RatioWith(request, cursor[i]),
                        RouteOverlapThreshold)) =>
                   /\ request.cached_aoi = NoCachedAoi
                   /\ ~request.response.cached
                   /\ request.pc = "processing" \/ request.fetches > 0

\* the lookup returned a record although a later record of the cursor
\* overlaps the requested polygon more
C12_Witness ==
    \E r \in RequestIds :
        LET request == requests[r]
        IN  /\ request.lookups > 0
            /\ request.cached_aoi # NoCachedAoi
            /\ \E j \in DOMAIN request.cursor :
                  Lt(RatioWith(request, request.cached_aoi),
                     RatioWith(request, request.cursor[j]))

\* a geometry that is not a Polygon, or whose coordinates are missing or an
\* empty list, or whose first ring has fewer than 4 coordinates
StructurallyInvalid(aoi_geometry) ==
    \/ aoi_geometry.type # "Polygon"
    \/ aoi_geometry.coordinates \in {"missing", "empty_list"}
    \/ aoi_geometry.ring_len < 4

\* C13: every analyze_vacant_land request whose AOI geometry is structurally
\* invalid (not a Polygon, a first ring of fewer than 4 coordinates, or an
\* empty or missing coordinates list) is rejected with a 4xx status, is not
\* retried, and performs no cache lookup, no fetch of polygons and no cache
\* write.
C13_InvalidAoiRejected ==
    \A r \in RequestIds :
        LET request == requests[r]
        IN  (StructurallyInvalid(request.aoi_geometry)
               /\ request.pc \notin {"idle", "received"}) =>
              /\ request.pc = "done"
              /\ request.response.status \in 400 .. 499
              /\ ~request.response.retried
              /\ request.lookups = 0
              /\ request.fetches = 0
              /\ request.writes = 0

\* C14 as stated: whenever Earth Engine is unauthenticated or any step of
\* the Earth Engine processing raises, get_vacant_land_polygons returns
\* synthetic fallback polygons unless the synthetic generator itself fails.
C14_AnyRaiseGivesSynthetic ==
    \A r \in RequestIds :
        LET fetch == requests[r].fetch
        IN  (requests[r].fetches > 0
               /\ (~fetch.authenticated \/ fetch.step_raised)) =>
              IF fetch.synthetic_failed THEN fetch.raised
              ELSE ~fetch.raised /\ fetch.origin = "Synthetic_Fallback"

\* C14: if Earth Engine is unauthenticated, or an exception leaves the Earth
\* Engine steps (it is not recovered by the square geometry or by the
\* vectorization at lower resolution), get_vacant_land_polygons returns
\* synthetic fallback polygons instead of raising and the request completes
\* as a success; a request that reached get_vacant_land_polygons is answered
\* with an error only if the synthetic generator itself failed.
C14_SyntheticFallbackOnFailure ==
    \A r \in RequestIds :
        LET request == requests[r]
            fetch == request.fetch
        IN  request.fetches > 0 =>
              /\ (~fetch.authenticated \/ fetch.escaped) =>
                   IF fetch.synthetic_failed THEN fetch.raised
                   ELSE ~fetch.raised /\ fetch.origin = "Synthetic_Fallback"
              /\ (fetch.authenticated /\ ~fetch.escaped) =>
                   ~fetch.raised /\ fetch.origin = "ESA_WorldCover_GEE"
              /\ (request.pc = "done" /\ ~fetch.raised) =>
                   /\ request.response.status = 200
                   /\ request.response.success
                   /\ request.response.origin = fetch.origin
              /\ (request.pc = "done" /\ request.response.status # 200) =>
                   fetch.synthetic_failed

\* an authenticated Earth Engine step raised, the synthetic polygons were
\* returned, cached and answered as a success
C14_Witness ==
    \E r \in RequestIds :
        LET request == requests[r]
        IN  /\ request.pc = "done"
            /\ request.fetches = 1
            /\ request.fetch.authenticated
            /\ request.fetch.step_raised
            /\ request.fetch.synthetic_calls = 1
            /\ request.response.status = 200
            /\ request.response.origin = "Synthetic_Fallback"
            /\ request.writes = 2

(***************************************************************************)
(* Properties of the feature vector and of the defaults                    *)
(***************************************************************************)
\* the input a training column stands for
ColumnInput(column, call) ==
    IF column = "AQI" THEN call.aqi
    ELSE IF column = "PopulationDensity" THEN call.population_density
    ELSE LET key == [DistHospital |-> "hospital", DistSchool |-> "school",
                     DistAirport |-> "airport", DistBus |-> "bus",
                     DistRailway |-> "railway", DistMall |-> "mall"][column]
         IN  call.distances[key]

\* C15: the feature vector handed to the scaler and the model is the 8-tuple
\* [AQI, PopulationDensity, DistHospital, DistSchool, DistAirport, DistBus,
\* DistRailway, DistMall], position for position the column order the model
\* was trained on.
C15_FeatureOrderIsTrainingOrder ==
    (Returned("features") /\ DOMAIN lastCall.distances = AmenityKeys) =>
        /\ feature_columns = TrainingColumns
        /\ TrainingColumns =
             <<"AQI", "PopulationDensity", "DistHospital", "DistSchool",
               "DistAirport", "DistBus", "DistRailway", "DistMall">>
        /\ Len(lastResult.features) = 8
        /\ \A i \in 1 .. 8 :
              lastResult.features[i] = ColumnInput(TrainingColumns[i], lastCall)

\* the scenario of the training script, whose eight values all differ
C15_Witness ==
    /\ Returned("features")
    /\ lastCall.distances = ScenarioDistances
    /\ lastResult.features =
         <<lastCall.aqi, lastCall.population_density, Rat(15, 10),
           Rat(8, 10), Num(20), Rat(3, 10), Num(2), Rat(12, 10)>>

\* the fixed defaults: hospital 10, school 8, bus 5, railway 15, mall 10,
\* airport 30
FixedDefaults ==
    [hospital |-> Num(10), school |-> Num(8), bus |-> Num(5),
     railway |-> Num(15), mall |-> Num(10), airport |-> Num(30)]

\* the mapping with each missing key set to its fixed default
Completed(distances) ==
    [k \in AmenityKeys |-> IF k \in DOMAIN distances THEN distances[k]
                           ELSE FixedDefaults[k]]

\* C16: in the ML scorer and in the rule-based scorer alike every missing
\* distance key is replaced by its fixed default (hospital 10, school 8,
\* bus 5, railway 15, mall 10, airport 30); with an empty mapping the
\* rule-based amenity sub-scores are 0 for hospital, school, bus, railway
\* and mall and 0.75 for the airport.
C16_MissingKeysGetDefaults ==
    /\ Returned("features") =>
         lastResult.features =
            LET d == Completed(lastCall.distances)
            IN  <<lastCall.aqi, lastCall.population_density, d.hospital,
                  d.school, d.airport, d.bus, d.railway, d.mall>>
    /\ Returned("rule") =>
         /\ lastResult.method = "rule_based_fallback"
         /\ \A k \in AmenityKeys \ DOMAIN lastCall.distances :
               lastResult = CalculateFallbackScore(
                               lastCall.aqi, lastCall.population_density,
                               With(lastCall.distances, k, FixedDefaults[k]))
         /\ lastCall.distances = EmptyDistances =>
              /\ lastResult.breakdown.hospital_score = Num(0)
              /\ lastResult.breakdown.school_score = Num(0)
              /\ lastResult.breakdown.bus_score = Num(0)
              /\ lastResult.breakdown.railway_score = Num(0)
              /\ lastResult.breakdown.mall_score = Num(0)
              /\ lastResult.breakdown.airport_score = Rat(3, 4)

\* the rule-based scorer returned for the empty mapping
C16_Witness ==
    /\ Returned("rule")
    /\ lastCall.distances = EmptyDistances
    /\ lastResult.breakdown.airport_score = Rat(3, 4)
    /\ lastResult.breakdown.hospital_score = Num(0)

(***************************************************************************)
(* Properties of malformed distances, thresholds, the confidence and the   *)
(* end-to-end scenario                                                     *)
(***************************************************************************)
\* the sub-score of an amenity in the breakdown of a rule-based result
SubScore(result, key) ==
    [hospital |-> result.breakdown.hospital_score,
     school |-> result.breakdown.school_score,
     bus |-> result.breakdown.bus_score,
     railway |-> result.breakdown.railway_score,
     mall |-> result.breakdown.mall_score,
     airport |-> result.breakdown.airport_score][key]

\* NaN, or a number below 0
NaNOrNegative(x) == x = NaN \/ (IsNum(x) /\ x.n < 0)

\* C17: in the rule-based scorer a NaN or negative amenity distance is
\* treated as out of range: the call raises no exception (it returns a
\* rule-based result) and the sub-score of that amenity is 0.
C17_MalformedDistanceScoresZero ==
    (Returned("rule") /\ ~RuleFails(lastCall)) =>
        \A k \in DOMAIN lastCall.distances :
            NaNOrNegative(lastCall.distances[k]) =>
                /\ lastResult.method = "rule_based_fallback"
                /\ SubScore(lastResult, k) = Num(0)

C19_ConfidenceIsStatic ==
    (Returned("calculate_hotspot_score") /\ lastResult.method = "ml_model") =>
        /\ lastResult.confidence \in {Rat(9, 10), Rat(85, 100)}
        /\ (model.score /\ ~model.predict_proba) =>
              lastResult.confidence = Rat(85, 100)

\* C19: every ml_model result of a model without predict_proba carries a
\* static confidence, 0.85 when the model has a score method (regression
\* type) and 0.9 otherwise, whatever the input and the prediction; for a
\* model with predict_proba the confidence is the largest class probability
\* that call returns, and 0.9 when the call raises.
C19_ConfidenceByModelType ==
    (Returned("calculate_hotspot_score") /\ lastResult.method = "ml_model") =>
        IF model.predict_proba
        THEN lastResult.confidence =
               (IF lastCall.env.proba = Raise THEN Rat(9, 10)
                ELSE lastCall.env.proba)
        ELSE lastResult.confidence =
               (IF model.score THEN Rat(85, 100) ELSE Rat(9, 10))

\* a model with predict_proba whose largest class probability is 0.6
C19_Witness ==
    /\ Returned("calculate_hotspot_score")
    /\ lastResult.method = "ml_model"
    /\ model.predict_proba
    /\ lastCall.env.proba = Rat(6, 10)
    /\ lastResult.confidence = Rat(6, 10)

\* the call of the end-to-end scenario
IsScenario(call) ==
    /\ call.aqi = Num(45)
    /\ call.population_density = Num(12000)
    /\ call.distances =
         [hospital |-> Rat(15, 10), school |-> Rat(8, 10),
          bus |-> Rat(3, 10), railway |-> Num(2), mall |-> Rat(12, 10),
          airport |-> Num(20)]

\* C20 as stated: for the scenario aqi 45, population density 12000,
\* hospital 1.5, school 0.8, bus 0.3, railway 2.0, mall 1.2, airport 20 the
\* rule-based score lies between 0.85 and 0.95.
C20_ScenarioInBand ==
    (Returned("rule") /\ IsScenario(lastCall)) =>
        /\ Leq(Rat(85, 100), lastResult.score)
        /\ Leq(lastResult.score, Rat(95, 100))

\* C20: for that scenario the rule-based score is 0.9994: every sub-score is
\* 1.0 but the airport's 35/36, so the score is at least 0.85 and above
\* 0.95.
C20_ScenarioScore ==
    (Returned("rule") /\ IsScenario(lastCall)) =>
        /\ lastResult.method = "rule_based_fallback"
        /\ lastResult.score = Rat(9994, 10000)
        /\ Leq(Rat(85, 100), lastResult.score)
        /\ Lt(Rat(95, 100), lastResult.score)
        /\ lastResult.breakdown.airport_score = Rat(972, 1000)
        /\ \A k \in AmenityKeys \ {"airport"} :
              SubScore(lastResult, k) = Num(1)

\* the scenario was scored
C20_Witness ==
    /\ Returned("rule")
    /\ IsScenario(lastCall)
    /\ lastResult.score = Rat(9994, 10000)
    /\ lastResult.breakdown.aqi_score = Num(1)
    /\ lastResult.breakdown.population_score = Num(1)


(***************************************************************************)
(* Properties of calculate_amenity_distances                               *)
(***************************************************************************)
\* the lookup of a key failed or found nothing: the service is
\* uninitialised, the request raised, or no place was found
FailedOrEmpty(call, key) ==
    \/ ~call.initialized
    \/ call.outcomes[key].kind \in {"none", "raised"}

C22_ProvenanceVisible ==
    \A r \in RequestIds :
        LET response == requests[r].response
        IN  response.success =>
              \A i \in DOMAIN response.vacant_land_polygons :
                 /\ response.vacant_land_polygons[i].data_source
                      \in {"ESA_WorldCover_GEE", "Synthetic_Fallback"}
                 /\ response.vacant_land_polygons[i].data_source
                      = response.origin

\* C23: when the analysis raises a geometry topology error the request is
\* retried once, with the original AOI polygon replaced by its bounding
\* rectangle, and the request fails only if that retry fails too.
C23_RetryOnBoundingRectangle ==
    \A r \in RequestIds :
        LET request == requests[r]
        IN  /\ Len(request.calls) <= 2
            /\ (Len(request.calls) = 2 /\ request.pc = "done") =>
                 /\ request.calls[2].used
                      = BoundingRectangle(request.aoi_geometry)
                 /\ request.response.status = 500 => request.fetch.raised
                 /\ ~request.fetch.raised =>
                      /\ request.response.success
                      /\ request.response.retried

(***************************************************************************)
(* Properties of the list get_vacant_land_polygons returns                 *)
(***************************************************************************)
\* the call returned a list
PolygonsReturned ==
    Returned("get_vacant_land_polygons") /\ ~lastResult.fetch.raised

\* C24: for every call of get_vacant_land_polygons, on the Earth Engine
\* path and on the synthetic fallback path alike, the list returned has at
\* most max_polygons entries and every polygon of it has an area of at
\* least min_area_m2 (its area in hectares times 10000).
C24_CountAndAreaLimits ==
    PolygonsReturned =>
        /\ Len(lastResult.polygons) <= lastCall.max_polygons
        /\ \A i \in DOMAIN lastResult.polygons :
              Leq(Num(lastCall.min_area_m2),
                  Mul(lastResult.polygons[i].area, Num(10000)))

(***************************************************************************)
(* Properties of the cache under concurrent and repeated requests          *)
(***************************************************************************)
\* the request missed the cache, computed its polygons and wrote both of
\* its cache documents
MissedAndWrote(request) ==
    /\ request.pc = "done"
    /\ request.lookups = 1
    /\ request.cached_aoi = NoCachedAoi
    /\ request.fetches = 1
    /\ request.writes = 2

\* the AOIs of the two requests are the same or overlap by the threshold
SameRegion(a, b) ==
    Leq(RouteOverlapThreshold, OverlapRatio(a.cells, b.cells))

\* the AOI document and the analysis a request wrote are in the collections
WroteOwnDocuments(request) ==
    /\ request.aoi_cache_id \in DOMAIN aoi_cache_collection
    /\ aoi_cache_collection[request.aoi_cache_id].aoi_geometry
         = request.aoi_geometry
    /\ \E i \in DOMAIN vacant_land_collection :
          /\ vacant_land_collection[i].aoi_cache_id = request.aoi_cache_id
          /\ vacant_land_collection[i].vacant_polygons
               = StoredPolygons(request.vacant_polygons_data)

\* C25: nothing keeps two concurrent requests for the same or a
\* threshold-overlapping AOI from both writing: whenever both missed the
\* cache and both wrote, the cache holds two AOI documents for the region,
\* one of each request, and two analyses, and both requests completed with
\* success (not cached).
C25_BothMissBothInsert ==
    (/\ \A r \in ConcurrentIds : MissedAndWrote(requests[r])
     /\ SameRegion(requests["r1"].aoi_geometry, requests["r2"].aoi_geometry))
    =>
        /\ requests["r1"].aoi_cache_id # requests["r2"].aoi_cache_id
        /\ \A r \in ConcurrentIds :
              /\ WroteOwnDocuments(requests[r])
              /\ requests[r].response.success
              /\ ~requests[r].response.cached
        /\ Len(aoi_cache_collection) >= 2
        /\ Len(vacant_land_collection) >= 2

\* the interleaving: both requests missed on the empty cache and both
\* inserted, leaving two AOI documents and two analyses for one region
C25_Witness ==
    /\ \A r \in ConcurrentIds :
          /\ MissedAndWrote(requests[r])
          /\ requests[r].cursor = <<>>
          /\ requests[r].response.success
    /\ requests["r1"].aoi_geometry = requests["r2"].aoi_geometry
    /\ Len(aoi_cache_collection) = 2
    /\ aoi_cache_collection[1].aoi_geometry
         = aoi_cache_collection[2].aoi_geometry
    /\ Len(vacant_land_collection) = 2

\* C26: after any sequence of cache_aoi_analysis calls, calls that fail
\* between the AOI insert and the analysis insert included, every document
\* of the AOI cache collection has an analysis referencing it, so that a
\* lookup that returned an AOI document always finds its analysis.
C26_EveryAoiHasAnalysis ==
    /\ (\A r \in RequestIds : requests[r].pc # "caching_analysis") =>
          \A i \in DOMAIN aoi_cache_collection :
             AnalysesOf(aoi_cache_collection[i].id) # {}
    /\ \A r \in RequestIds :
          requests[r].pc = "cache_found" =>
             AnalysesOf(requests[r].cached_aoi.id) # {}

\* the documents of the cursor of a request that hold its very polygon and
\* have an analysis: the cache entries an earlier request for that polygon
\* wrote in full, not older than CacheTtlDays when this request looked
WrittenFor(request) ==
    {i \in DOMAIN request.cursor :
        /\ request.cursor[i].aoi_geometry = request.aoi_geometry
        /\ AnalysesOf(request.cursor[i].id) # {}}

\* the lookup returned a document that has an analysis, and reading the
\* analysis failed
ReadFailed(request) ==
    /\ request.cached_aoi # NoCachedAoi
    /\ AnalysesOf(request.cached_aoi.id) # {}
    /\ ~request.response.cached

\* id, area and score of the polygons of a response
IdAreaScore(vacant_land_polygons) ==
    [i \in DOMAIN vacant_land_polygons |->
       [id |-> vacant_land_polygons[i].id,
        area |-> vacant_land_polygons[i].area,
        hotspot_score |-> vacant_land_polygons[i].score]]

\* C27: if a request for polygon P missed the cache and its cache write
\* succeeded, every later request for the identical P within 30 days (whose
\* cache reads do not fail) returns cached=True with the polygon ids, areas
\* and scores of the first response, without recomputation and without
\* inserting a cache record.
C27_RepeatServedFromCache ==
    \A r \in RequestIds :
        LET request == requests[r]
        IN  (/\ request.pc = "done"
             /\ WrittenFor(request) # {}
             /\ ~ReadFailed(request)) =>
               /\ request.response.success
               /\ request.response.cached
               /\ request.fetches = 0
               /\ request.writes = 0
               /\ \E i \in WrittenFor(request) :
                     \E j \in AnalysesOf(request.cursor[i].id) :
                        IdAreaScore(request.response.vacant_land_polygons)
                          = vacant_land_collection[j].vacant_polygons

(***************************************************************************)
(* Properties of _calculate_real_hotspot_score on failure                  *)
(***************************************************************************)
\* the AQI lookup or the distance lookup of the call raised
ParcelFailed ==
    /\ Returned("_calculate_real_hotspot_score")
    /\ \/ lastCall.aqi_result.status = "raise"
       \/ lastCall.distances = RaisedDistances

\* C28: _calculate_real_hotspot_score never raises: when the AQI lookup or
\* the distance lookup fails it returns a result with method
\* error_fallback, area_bonus 0 and the score
\* min(100, 60 + min(100, (area_m2/10000)*20)); and for every outcome,
\* failure or success, and every area_m2 >= 0 the score returned lies in
\* [0, 100].
C28_FailureGivesBoundedFallback ==
    Returned("_calculate_real_hotspot_score") =>
        /\ IsNum(lastResult.score)
        /\ Leq(Num(0), lastResult.score)
        /\ Leq(lastResult.score, Num(100))
        /\ ParcelFailed =>
             LET raw == Div(lastCall.area_m2, Num(500))
                 area_score == IF Leq(Num(100), raw) THEN Num(100) ELSE raw
                 sum == Add(Num(60), area_score)
             IN  /\ lastResult.method = "error_fallback"
                 /\ lastResult.area_bonus = Num(0)
                 /\ lastResult.score =
                      (IF Leq(Num(100), sum) THEN Num(100) ELSE sum)
        /\ ~ParcelFailed => lastResult.method # "error_fallback"

\* the distance lookup raised for a parcel of 100 ha: 60 + 100 capped at 100
C28_Witness ==
    /\ ParcelFailed
    /\ lastCall.distances = RaisedDistances
    /\ lastCall.area_m2 = Num(1000000)
    /\ lastResult.method = "error_fallback"
    /\ lastResult.score = Num(100)

(***************************************************************************)
(* Order of the polygon list                                               *)
(***************************************************************************)
\* C29: the polygon list returned by get_vacant_land_polygons is ordered by
\* hotspot_score, highest first, on every path, Earth Engine results and
\* synthetic fallback alike.
C29_OrderedByScoreDescending ==
    PolygonsReturned =>
        \A i, j \in DOMAIN lastResult.polygons :
            i < j => Leq(lastResult.polygons[j].hotspot_score,
                         lastResult.polygons[i].hotspot_score)

(***************************************************************************)
(* Preprocessing at training and at inference                              *)
(***************************************************************************)
\* the saved regressor has predicted one row
Predicted ==
    Returned("train_hotspot_model")
    /\ lastResult.method \in {"test_saved_model", "_calculate_ml_score"}

\* the row preprocessed as the matrix the saved model was fitted on
AsInTraining(files, features) ==
    IF files.hotspot_model.fitted_on = "X_train_scaled"
    THEN ScalerTransform(files.scaler_pkl, features)
    ELSE features

\* C30: for every model type the training script can save, the regressor
\* receives at inference features preprocessed exactly as during its
\* training: the stored scaler is applied at inference if and only if the
\* saved model was fitted on scaled features.
C30_InferencePreprocessedAsTraining ==
    Predicted =>
        /\ lastResult.input.applied
             <=> (lastResult.files.hotspot_model.fitted_on = "X_train_scaled")
        /\ lastResult.input.row
             = AsInTraining(lastResult.files, lastCall.features)
====
